---- MODULE Spec2Model ----
(***************************************************************************)
(* BART rank tracker (src/BART-4.py): the seven-layer result validator,    *)
(* the page crawl controller (_perform_search_with_validation), the retry  *)
(* controller (track_ranking_with_validation) and the GUI session worker   *)
(* (run_ultra_accurate_tracking) with its stop button.                     *)
(*                                                                         *)
(* Scores are the code's floats times 100 (0.85 -> 85).  The mean of the   *)
(* seven scores is kept in units of 1/700 (the plain sum) and the final    *)
(* confidence in units of 1/1400, so that no division is rounded.          *)
(***************************************************************************)
EXTENDS Integers, Sequences, FiniteSets, TLC

\* ------------------------------------------------------------- bounds
MaxKeywords == 2
MaxPages == 2
MaxResults == 4
MaxPolls == 2
MaxRecords == 3
MaxEvents == 1
MaxDuration == 1
MaxWorkers == 2
MaxSelectors == 2
MaxElements == 11
MaxTokens == 3
MaxSamples == 2
MaxListed == 1

\* -------------------------------------------------- program constants
max_retries == 5
ResultsPerPage == 10
ConfidenceThreshold == 85
LayerThreshold == 70
FuzzyThreshold == 95
TopResults == 10
Py1TopResults == 10
Py1ElementsChecked == 15
Py1LinksChecked == 50
Py1TimesKept == 50

\* Units of the final confidence: 1.0 is ConfUnit.
ConfUnit == 2 * 7 * 100

VARIABLES
    \* GUI (UltraProfessionalBARTGUI)
    is_tracking, current_tracker, gui_pc, reset_pending,
    \* session worker (run_ultra_accurate_tracking)
    keywords, max_pages, idx, pc,
    \* tracker (UltraAccurateRankTracker)
    should_stop, driver, browser, attempt, polls, sleep, page_num, nresults, i, result,
    \* history of the current keyword / attempt
    h_calls, h_errors, h_retries, h_delay,
    h_seen, h_last, h_matches, h_navs, h_pages, h_captcha,
    h_returned, h_handoffs,
    \* validator harness
    v_pc, v_scores, v_match, v_conf, v_result,
    \* StatisticsEngine
    total_keywords, processed_keywords, successful_matches, failed_matches,
    processing_times, confidence_scores, errors_encountered, retry_count,
    keyword_started, stats,
    \* worker threads of the GUI (threading.Thread, line 1390)
    t_pc, t_todo, t_resets, t_hist, config_data, h_form,
    \* result extractors
    x_fn, x_pc, x_sel, x_all, x_out, x_page, x_seen, x_cur,
    d_pc, d_url, d_clean, d_again, d_target, d_match,
    \* the candidate of the found scenario
    s_title, s_cand,
    \* Py1: EnhancedRankTracker.track_ranking_premium and StatisticsTracker
    p_pc, p_keywords, p_max_pages, p_idx, p_page, p_navs, p_driver,
    total_keywords_p, keywords_processed, keywords_found, keywords_not_found,
    processing_times_p, keyword_start_time,
    h_completed

gui_vars == <<is_tracking, current_tracker, gui_pc, reset_pending>>
worker_vars == <<keywords, max_pages, idx, pc>>
locals == <<polls, page_num, nresults, i>>
tracker_vars == <<should_stop, driver, browser, attempt, sleep, locals, result>>
attempt_hist == <<h_seen, h_last, h_matches, h_navs, h_pages, h_captcha>>
keyword_hist == <<h_calls, h_errors, h_retries, h_delay>>
session_hist == <<h_returned, h_handoffs>>
hist_vars == <<keyword_hist, attempt_hist, session_hist>>
val_vars == <<v_pc, v_scores, v_match, v_conf, v_result>>
engine_vars == <<total_keywords, processed_keywords, successful_matches, failed_matches,
                 processing_times, confidence_scores, errors_encountered, retry_count,
                 keyword_started>>
stats_vars == <<engine_vars, stats>>
start_vars == <<config_data, h_form>>
thread_vars == <<t_pc, t_todo, t_resets, t_hist, start_vars>>
extract_vars == <<x_fn, x_pc, x_sel, x_all, x_out, x_page, x_seen, x_cur>>
domain_vars == <<d_pc, d_url, d_clean, d_again, d_target, d_match>>
scenario_vars == <<s_title, s_cand>>
tracker_stats == <<total_keywords_p, keywords_processed, keywords_found, keywords_not_found>>
timing_vars == <<processing_times_p, keyword_start_time>>
premium_vars == <<p_pc, p_keywords, p_max_pages, p_idx, p_page, p_navs, p_driver, tracker_stats,
                 timing_vars, h_completed>>
ext_vars == <<stats_vars, thread_vars, extract_vars, domain_vars, scenario_vars, premium_vars>>
vars == <<gui_vars, worker_vars, tracker_vars, hist_vars, val_vars, ext_vars>>

\* ------------------------------------------------------------ helpers
RECURSIVE SumSeq(_)
SumSeq(s) == IF s = <<>> THEN 0 ELSE Head(s) + SumSeq(Tail(s))

RECURSIVE MinSeq(_)
MinSeq(s) == IF Len(s) = 1 THEN s[1]
             ELSE LET m == MinSeq(Tail(s)) IN IF Head(s) <= m THEN Head(s) ELSE m

Min2(a, b) == IF a <= b THEN a ELSE b

\* -------------------------------------------------------------- strings
\* A Python str is the sequence of its characters; an argument of the
\* normalizer is [is_str, text], NonString standing for None or a number.
Str(t) == [is_str |-> TRUE, text |-> t]

NonString == [is_str |-> FALSE, text |-> <<>>]

LowerLetters ==
    {"a", "b", "c", "d", "e", "f", "g", "h", "i", "j", "k", "l", "m",
     "n", "o", "p", "q", "r", "s", "t", "u", "v", "w", "x", "y", "z"}

Digits == {"0", "1", "2", "3", "4", "5", "6", "7", "8", "9"}

\* str.lower on the capitals the inputs use
lower_char(c) ==
    CASE c = "W" -> "w"
      [] c = "M" -> "m"
      [] OTHER -> c

lower(t) == [k \in 1..Len(t) |-> lower_char(t[k])]

RECURSIVE lstrip(_, _)
lstrip(t, chars) ==
    IF t # <<>> /\ Head(t) \in chars THEN lstrip(Tail(t), chars) ELSE t

RECURSIVE rstrip(_, _)
rstrip(t, chars) ==
    IF t # <<>> /\ t[Len(t)] \in chars
    THEN rstrip(SubSeq(t, 1, Len(t) - 1), chars)
    ELSE t

strip(t, chars) == rstrip(lstrip(t, chars), chars)

startswith(t, prefix) ==
    Len(t) >= Len(prefix) /\ SubSeq(t, 1, Len(prefix)) = prefix

drop(t, n) == SubSeq(t, n + 1, Len(t))

\* re.sub(r'^literal', '', t)
sub_prefix(t, prefix) == IF startswith(t, prefix) THEN drop(t, Len(prefix)) ELSE t

\* the number of characters of t from position k on that are digits
RECURSIVE digits_from(_, _)
digits_from(t, k) ==
    IF k <= Len(t) /\ t[k] \in Digits THEN 1 + digits_from(t, k + 1) ELSE 0

\* re.sub(r'^https?://', '', t)
sub_scheme(t) ==
    IF startswith(t, <<"h", "t", "t", "p", "s", ":", "/", "/">>) THEN drop(t, 8)
    ELSE sub_prefix(t, <<"h", "t", "t", "p", ":", "/", "/">>)

\* re.sub(r'^www[0-9]*\.', '', t)
sub_www(t) ==
    IF startswith(t, <<"w", "w", "w">>)
    THEN LET n == digits_from(t, 4)
         IN IF Len(t) >= 4 + n /\ t[4 + n] = "." THEN drop(t, 4 + n) ELSE t
    ELSE t

\* re.sub(r'^[a-z]{2}\.', '', t)
sub_language(t) ==
    IF Len(t) >= 3 /\ t[1] \in LowerLetters /\ t[2] \in LowerLetters /\ t[3] = "."
    THEN drop(t, 3)
    ELSE t

\* the index of the first character of t that is in chars, or Len(t) + 1
RECURSIVE find_first(_, _, _)
find_first(t, chars, k) ==
    IF k > Len(t) \/ t[k] \in chars THEN k ELSE find_first(t, chars, k + 1)

SchemeChars == LowerLetters \cup Digits \cup {"W", "M", "+", "-", "."}

\* urlparse(t).netloc -> <<raised, netloc>>: what follows "scheme://" up to
\* the first of / ? #, the empty string when t has no "scheme://"; a netloc
\* with one bracket and not the other raises ValueError.
urlparse_netloc(t) ==
    LET colon == find_first(t, {":"}, 1)
        has_scheme == /\ 1 < colon /\ colon <= Len(t)
                      /\ t[1] \in LowerLetters \cup {"W", "M"}
                      /\ \A k \in 1..(colon - 1) : t[k] \in SchemeChars
        rest == IF has_scheme THEN drop(t, colon) ELSE t
    IN IF startswith(rest, <<"/", "/">>)
       THEN LET after == drop(rest, 2)
                netloc == SubSeq(after, 1, find_first(after, {"/", "?", "#"}, 1) - 1)
                opens == \E k \in 1..Len(netloc) : netloc[k] = "["
                closes == \E k \in 1..Len(netloc) : netloc[k] = "]"
            IN <<opens # closes, netloc>>
       ELSE <<FALSE, <<>>>>

\* re.sub(r':\d+$', '', t)
sub_port(t) ==
    LET n == Len(t) - Len(rstrip(t, Digits))
    IN IF n > 0 /\ Len(t) > n /\ t[Len(t) - n] = ":"
       THEN SubSeq(t, 1, Len(t) - n - 1)
       ELSE t

\* AccuracyEngine.enhanced_clean_domain (81-120)
enhanced_clean_domain(url) ==
    IF ~url.is_str \/ url.text = <<>> THEN <<>>
    ELSE LET u1 == lower(strip(url.text, {" "}))
             u2 == sub_scheme(u1)
             u3 == sub_www(u2)
             u4 == sub_prefix(u3, <<"m", ".">>)
             u5 == sub_prefix(u4, <<"m", "o", "b", "i", "l", "e", ".">>)
             u6 == sub_prefix(u5, <<"a", "m", "p", ".">>)
             u7 == sub_language(u6)
             u8 == IF startswith(u7, <<"h", "t", "t", "p">>) THEN u7
                   ELSE <<"h", "t", "t", "p", ":", "/", "/">> \o u7
             parsed == urlparse_netloc(u8)
             domain == strip(sub_port(lower(parsed[2])), {"."})
         IN IF parsed[1] THEN <<>>
            ELSE IF (\A k \in 1..Len(domain) : domain[k] # ".") \/ Len(domain) < 3
                 THEN <<>>
                 ELSE SubSeq(domain, 1, find_first(domain, {"/"}, 1) - 1)

\* a in b
IsSubstring(a, b) ==
    \E k \in 0..(Len(b) - Len(a)) : SubSeq(b, k + 1, k + Len(a)) = a

\* '.'.join(t.split('.')[-2:])
main_domain(t) ==
    LET dots == {k \in 1..Len(t) : t[k] = "."}
    IN IF Cardinality(dots) < 2 THEN t
       ELSE LET last == CHOOSE k \in dots : \A j \in dots : j <= k
                before == CHOOSE k \in dots \ {last} : \A j \in dots \ {last} : j <= k
            IN drop(t, before)

\* Lines 125-166 of fuzzy_domain_match: how the two arguments relate once
\* each was cleaned again.
domain_relation(found_domain, target_domain) ==
    LET found_clean == enhanced_clean_domain(Str(found_domain))
        target_clean == enhanced_clean_domain(Str(target_domain))
    IN IF found_clean = <<>> \/ target_clean = <<>> THEN "empty"
       ELSE IF found_clean = target_clean THEN "equal"
       ELSE IF IsSubstring(found_clean, target_clean) \/ IsSubstring(target_clean, found_clean)
            THEN "sub"
       ELSE IF main_domain(found_clean) = main_domain(target_clean) THEN "main"
       ELSE "other"

\* The inputs: every concatenation of at most MaxTokens of these pieces, and
\* some whole strings.
Tokens ==
    { <<"w", "w", "w", ".">>, <<"w", "w", "w", "2", ".">>, <<"W", "W", "W", ".">>,
      <<"m", ".">>, <<"m", "o", "b", "i", "l", "e", ".">>, <<"a", "m", "p", ".">>,
      <<"e", "n", ".">>, <<"b", "l", "o", "g", ".">>,
      <<"e", "x", "a", "m", "p", "l", "e", ".", "c", "o", "m">>,
      <<"c", "o", ".", "u", "k">>,
      <<"h", "t", "t", "p", "s", ":", "/", "/">>,
      <<":", "8", "0">>, <<"/", "s", "a", "l", "e">>, <<" ">> }

RECURSIVE TokenStrings(_)
TokenStrings(n) ==
    IF n = 0 THEN {<<>>}
    ELSE LET shorter == TokenStrings(n - 1)
         IN shorter \cup {t \o piece : t \in shorter, piece \in Tokens}

IpLiteral == <<"1", "9", "2", ".", "1", "6", "8", ".", "1", ".", "1">>

ScenarioTarget ==
    <<"s", "h", "o", "p", ".", "e", "x", "a", "m", "p", "l", "e", ".", "c", "o", "m">>

ScenarioHref ==
    <<"h", "t", "t", "p", "s", ":", "/", "/", "w", "w", "w", ".">> \o ScenarioTarget
        \o <<"/", "s", "a", "l", "e">>

WholeStrings ==
    { IpLiteral, <<"[", ":", ":", "1", "]">>,
      <<"l", "o", "c", "a", "l", "h", "o", "s", "t">>, <<"a", "b">>, <<".", ".">>,
      <<"h", "t", "t", "p", "b", "i", "n", ".", "o", "r", "g">>,
      ScenarioTarget, ScenarioHref }

DomainInputs ==
    {NonString} \cup {Str(t) : t \in TokenStrings(MaxTokens) \cup WholeStrings}

\* the target domains a cleaned domain is matched against
TargetDomains ==
    { <<"e", "x", "a", "m", "p", "l", "e", ".", "c", "o", "m">>,
      <<"b", "l", "o", "g", ".", "e", "x", "a", "m", "p", "l", "e", ".", "c", "o", "m">>,
      ScenarioTarget }

\* ---------------------------------------------------------- candidates
\* What the layer functions read of one candidate (found_domain, url, title,
\* element) against the target domain and the keyword.
\*   dom     relation of the cleaned found domain to the cleaned target
\*   fuzz    max(ratio, partial_ratio, token_sort_ratio), 0..100
\*   ctx     outcome of the container inspection
\*   netloc  relation of urlparse(url).netloc to the target netloc
\*   title   title is non-empty;  kw_t: keyword in title;  tgt_t: a label of
\*           the target domain in title;  part_t: a >2-character label of the
\*           found domain in title;  long_t: len(title) > 10
\*   pos     outcome of the ancestor lookup
\*   tld/structure  found domain ends with a listed TLD / has >= 2 non-empty labels
\*   url     url is non-empty;  in_url: found domain is a substring of url
DomRels == {"empty", "equal", "sub", "main", "other"}
FuzzValues == {40, 94, 95, 100}
CtxKinds == {"organic", "partial", "excluded", "error"}
NetlocRels == {"same", "contains", "differs", "error"}
PosKinds == {"main", "none", "error"}

Candidates ==
    [dom : DomRels, fuzz : FuzzValues, ctx : CtxKinds, netloc : NetlocRels,
     title : BOOLEAN, kw_t : BOOLEAN, tgt_t : BOOLEAN, part_t : BOOLEAN,
     long_t : BOOLEAN, pos : PosKinds, tld : BOOLEAN, structure : BOOLEAN,
     url : BOOLEAN, in_url : BOOLEAN]

\* A well-formed observation: nothing is found in an empty title or url.
WellFormed(c) ==
    /\ (~c.title => ~c.kw_t /\ ~c.tgt_t /\ ~c.part_t /\ ~c.long_t)
    /\ (~c.url => ~c.in_url /\ c.netloc \in {"differs", "error"})
    /\ (c.dom = "empty" => ~c.in_url /\ ~c.part_t /\ ~c.tld /\ ~c.structure)
    /\ (c.dom # "empty" => c.structure)
    /\ (c.dom \in {"equal", "sub"} => c.fuzz = 100)

\* The candidate before any was read.
NoCandidate ==
    [dom |-> "empty", fuzz |-> 100, ctx |-> "error", netloc |-> "error",
     title |-> FALSE, kw_t |-> FALSE, tgt_t |-> FALSE, part_t |-> FALSE,
     long_t |-> FALSE, pos |-> "error", tld |-> FALSE, structure |-> FALSE,
     url |-> FALSE, in_url |-> FALSE]

endswith(t, suffix) ==
    Len(t) >= Len(suffix) /\ SubSeq(t, Len(t) - Len(suffix) + 1, Len(t)) = suffix

\* t.split('.'), as a set
Labels(t) ==
    LET cuts == {0, Len(t) + 1} \cup {k \in 1..Len(t) : t[k] = "."}
    IN {SubSeq(t, a + 1, b - 1) :
           <<a, b>> \in {pr \in cuts \X cuts :
                           /\ pr[1] < pr[2]
                           /\ \A k \in cuts : ~(pr[1] < k /\ k < pr[2])}}

\* valid_tlds of _validate_domain_authority
ValidTlds ==
    { <<".", "c", "o", "m">>, <<".", "o", "r", "g">>, <<".", "n", "e", "t">>,
      <<".", "e", "d", "u">>, <<".", "g", "o", "v">>, <<".", "i", "o">>,
      <<".", "c", "o">>, <<".", "u", "k">> }

\* What the layer functions read of a candidate with this href and title,
\* for this target and keyword (lines 596-597, 649 and 691-781); ctx and pos
\* are the outcomes of the two container inspections and fuzz the
\* confidence of the fuzzywuzzy functions.
candidate_of(href, title, target_domain, keyword, fuzz, ctx, pos) ==
    LET found_domain == enhanced_clean_domain(Str(href))
        target_clean == enhanced_clean_domain(Str(target_domain))
        relation == IF found_domain = <<>> THEN "empty"
                    ELSE domain_relation(found_domain, target_clean)
        url_netloc == urlparse_netloc(lower(href))
        target_netloc ==
            urlparse_netloc(<<"h", "t", "t", "p", ":", "/", "/">> \o lower(target_clean))
        title_lower == lower(title)
    IN [dom |-> relation,
        fuzz |-> fuzz,
        ctx |-> ctx,
        netloc |-> IF url_netloc[1] \/ target_netloc[1] THEN "error"
                   ELSE IF url_netloc[2] = target_netloc[2] THEN "same"
                   ELSE IF \/ IsSubstring(target_netloc[2], url_netloc[2])
                           \/ IsSubstring(url_netloc[2], target_netloc[2])
                        THEN "contains"
                   ELSE "differs",
        title |-> title # <<>>,
        kw_t |-> title # <<>> /\ IsSubstring(lower(keyword), title_lower),
        tgt_t |-> title # <<>> /\ \E part \in Labels(lower(target_clean)) :
                                     IsSubstring(part, title_lower),
        part_t |-> title # <<>> /\ \E part \in Labels(found_domain) :
                                      Len(part) > 2 /\ IsSubstring(part, title_lower),
        long_t |-> Len(title) > 10,
        pos |-> pos,
        tld |-> \E tld \in ValidTlds : endswith(found_domain, tld),
        structure |-> /\ \E k \in 1..Len(found_domain) : found_domain[k] = "."
                      /\ <<>> \notin Labels(found_domain),
        url |-> href # <<>>,
        in_url |-> found_domain # <<>> /\ IsSubstring(found_domain, lower(href))]

ScenarioKeyword == <<"s", "h", "o", "e", "s">>

\* the titles of the scenario: concatenations of at most MaxTokens words
TitleTokens ==
    { ScenarioKeyword, <<" ">>, <<"b", "u", "y">>, <<"s", "h", "o", "p">>,
      <<"o", "n", "l", "i", "n", "e">>, <<"e", "x", "a", "m", "p", "l", "e">> }

RECURSIVE TitleStrings(_)
TitleStrings(n) ==
    IF n = 0 THEN {<<>>}
    ELSE LET shorter == TitleStrings(n - 1)
         IN shorter \cup {t \o word : t \in shorter, word \in TitleTokens}

\* ------------------------------------------------------ layer functions
\* Layer 1: AccuracyEngine.fuzzy_domain_match -> <<is_match, confidence>>
fuzzy_domain_match(c) ==
    IF c.dom = "empty" THEN <<FALSE, 0>>
    ELSE IF c.dom = "equal" THEN <<TRUE, 100>>
    ELSE IF c.fuzz >= FuzzyThreshold THEN <<TRUE, c.fuzz>>
    ELSE IF c.dom = "sub" THEN <<TRUE, 90>>
    ELSE IF c.dom = "main" THEN <<TRUE, 85>>
    ELSE <<FALSE, c.fuzz>>

\* Layer 2: AccuracyEngine.validate_organic_result_context
validate_organic_result_context(c) ==
    CASE c.ctx = "error" -> <<FALSE, 0>>
      [] c.ctx = "excluded" -> <<FALSE, 0>>
      [] c.ctx = "organic" -> <<TRUE, 100>>
      [] OTHER -> <<FALSE, 50>>

\* Layer 3
validate_url_structure(c) ==
    CASE c.netloc = "error" -> 0
      [] c.netloc = "same" -> 100
      [] c.netloc = "contains" -> 90
      [] OTHER -> 0

\* Layer 4
validate_title_relevance(c) ==
    IF ~c.title THEN 0
    ELSE (IF c.kw_t THEN 50 ELSE 0) + (IF c.tgt_t THEN 50 ELSE 0)

\* Layer 5
validate_position_context(c) ==
    CASE c.pos = "main" -> 100
      [] c.pos = "none" -> 50
      [] OTHER -> 30

\* Layer 6
validate_domain_authority(c) ==
    IF c.dom = "empty" THEN 0
    ELSE IF c.tld /\ c.structure THEN 100
    ELSE IF c.structure THEN 70
    ELSE 30

\* Layer 7
validate_consistency(c) ==
    LET found == c.dom # "empty"
        s1 == IF found /\ c.url /\ c.in_url THEN 40 ELSE 0
        s2 == IF found /\ c.title /\ c.part_t THEN 30 ELSE 0
        s3 == IF found /\ c.url /\ c.title /\ c.long_t THEN 30 ELSE 0
    IN Min2(s1 + s2 + s3, 100)

\* validation_scores, in the order the code appends them
validation_scores(c) ==
    LET l1 == fuzzy_domain_match(c)
        l2 == validate_organic_result_context(c)
    IN << IF l1[1] THEN l1[2] ELSE 0,
          IF l2[1] THEN l2[2] ELSE 0,
          validate_url_structure(c),
          validate_title_relevance(c),
          validate_position_context(c),
          validate_domain_authority(c),
          validate_consistency(c) >>

\* avg_confidence = statistics.mean(validation_scores), in units of 1/700
avg_confidence(scores) == SumSeq(scores)

\* min_confidence = min(validation_scores), in units of 1/100
min_confidence(scores) == MinSeq(scores)

\* Variant: the sum of mean and minimum is not halved.
final_confidence_unhalved(scores) ==
    2 * (avg_confidence(scores) + 7 * min_confidence(scores))

\* final_confidence = (avg_confidence + min_confidence) / 2, in units of 1/1400
final_confidence(scores) == avg_confidence(scores) + 7 * min_confidence(scores)

\* Variant: either threshold is enough.
is_match_either(final, minc) ==
    \/ final * 100 >= ConfidenceThreshold * ConfUnit
    \/ minc >= LayerThreshold

\* is_match = final_confidence >= 0.85 and min_confidence >= 0.7
is_match_rule(final, minc) ==
    /\ final * 100 >= ConfidenceThreshold * ConfUnit
    /\ minc >= LayerThreshold

\* _seven_layer_validation -> <<is_match, final_confidence>>
seven_layer_validation(c) ==
    LET scores == validation_scores(c)
        final == final_confidence(scores)
    IN <<is_match_rule(final, min_confidence(scores)), final>>

\* Variant: a running count of the results seen in the attempt.
position_running(p, k) == h_seen + 1

\* position = ((page_num - 1) * 10) + i + 1
position_of(p, k) == ((p - 1) * ResultsPerPage) + k + 1

\* the found result built at lines 610-620
found_result(p, k, conf) ==
    [found |-> TRUE, position |-> position_of(p, k), page |-> p,
     url |-> "href", title |-> "title",
     confidence |-> conf, attempts |-> 0, has_attempts |-> FALSE, has_error |-> FALSE]

NoResult ==
    [found |-> FALSE, position |-> 0, page |-> 0, url |-> "", title |-> "",
     confidence |-> 0, attempts |-> 0, has_attempts |-> FALSE, has_error |-> FALSE]

\* Variant: the position field carries the number of attempts made.
not_found_result_counting ==
    [found |-> FALSE, position |-> h_calls, page |-> 0, url |-> "", title |-> "",
     confidence |-> 0, attempts |-> max_retries, has_attempts |-> TRUE, has_error |-> FALSE]

\* the not-found result built at lines 515-525 (it has no 'error' key)
not_found_result ==
    [found |-> FALSE, position |-> 0, page |-> 0, url |-> "", title |-> "",
     confidence |-> 0, attempts |-> max_retries, has_attempts |-> TRUE, has_error |-> FALSE]

\* Candidates the crawl model lets a result page hold.
SampleCandidates ==
    LET organic == [dom |-> "equal", fuzz |-> 100, ctx |-> "organic", netloc |-> "same",
                    title |-> TRUE, kw_t |-> TRUE, tgt_t |-> TRUE, part_t |-> TRUE,
                    long_t |-> TRUE, pos |-> "main", tld |-> TRUE, structure |-> TRUE,
                    url |-> TRUE, in_url |-> TRUE]
    IN { organic,
         [organic EXCEPT !.dom = "sub", !.fuzz = 94, !.netloc = "contains"],
         [organic EXCEPT !.dom = "other", !.fuzz = 40, !.netloc = "differs",
                         !.tgt_t = FALSE],
         [organic EXCEPT !.ctx = "excluded"],
         [organic EXCEPT !.kw_t = FALSE],
         [organic EXCEPT !.tld = FALSE],
         [organic EXCEPT !.dom = "empty", !.fuzz = 40, !.url = FALSE, !.in_url = FALSE,
                         !.netloc = "error", !.part_t = FALSE, !.tld = FALSE,
                         !.structure = FALSE] }

\* ------------------------------------------ StatisticsEngine, lines 309-402
\* Times are whole seconds and confidences hundredths.  The percentages, the
\* speed (keywords per minute) and the remaining time get_current_stats
\* returns are rounded to two decimals by the code and kept here in
\* hundredths; within the bounds no quotient falls on a rounding tie.
Durations == 0..MaxDuration
Confidences == {85, 100}
SessionSizes == {1, 3, 10}

Max2(a, b) == IF a >= b THEN a ELSE b

\* round(n / d, 2) in hundredths, for n already scaled by 100
Round(n, d) == (2 * n + d) \div (2 * d)

\* A division: <<ZeroDivisionError raised, rounded quotient>>
Quot(n, d) == IF d = 0 THEN <<TRUE, 0>> ELSE <<FALSE, Round(n, d)>>

\* statistics.mean(xs) scaled by k: <<StatisticsError raised, rounded mean>>
Mean(xs, k) == Quot(k * SumSeq(xs), Len(xs))

NoStats ==
    [called |-> FALSE, raised |-> FALSE, accuracy |-> 0, success_rate |-> 0,
     processing_speed |-> 0, avg_confidence |-> 0, progress |-> 0, errors |-> 0,
     retries |-> 0, estimated_remaining |-> 0]

\* the dictionary of lines 364-374
ZeroStats == [NoStats EXCEPT !.called = TRUE]

\* Variant: the early return for an engine without a session is missing.
no_session_unchecked == FALSE

\* if self.total_keywords == 0
no_session == total_keywords = 0

\* Variant: the success-rate denominator is used for the accuracy.
accuracy_denominator_total == Max2(1, total_keywords)

\* max(1, self.processed_keywords)
accuracy_denominator == Max2(1, processed_keywords)

\* max(1, self.total_keywords)
success_denominator == Max2(1, total_keywords)

\* if self.processing_times
times_recorded == Len(processing_times) > 0

\* Lines 376-402.
get_current_stats ==
    IF no_session THEN ZeroStats
    ELSE
      LET accuracy == Quot(10000 * successful_matches, accuracy_denominator)
          success_rate == Quot(10000 * successful_matches, success_denominator)
          avg_time == Mean(processing_times, 1)
          speed == IF times_recorded
                   THEN IF avg_time[1] THEN <<TRUE, 0>>
                        ELSE IF SumSeq(processing_times) > 0
                             THEN Quot(6000 * Len(processing_times),
                                       SumSeq(processing_times))
                             ELSE <<FALSE, 0>>
                   ELSE <<FALSE, 0>>
          confidence == IF Len(confidence_scores) > 0
                        THEN Mean(confidence_scores, 100)
                        ELSE <<FALSE, 0>>
          progress == Quot(10000 * processed_keywords, total_keywords)
          remaining_keywords == total_keywords - processed_keywords
          remaining == IF times_recorded
                       THEN Mean(processing_times, 100 * remaining_keywords)
                       ELSE <<FALSE, 0>>
      IN [called |-> TRUE,
          raised |-> accuracy[1] \/ success_rate[1] \/ speed[1] \/ confidence[1]
                     \/ progress[1] \/ remaining[1],
          accuracy |-> accuracy[2],
          success_rate |-> success_rate[2],
          processing_speed |-> speed[2],
          avg_confidence |-> confidence[2],
          progress |-> progress[2],
          errors |-> errors_encountered,
          retries |-> retry_count,
          estimated_remaining |-> remaining[2]]

\* ---------------------------------------------------------------- Init
\* A tracker as __init__ (407-420) leaves it, with no call in progress.
NewTracker ==
    /\ should_stop' = FALSE
    /\ driver' = "none"
    /\ browser' = 0
    /\ attempt' = 0
    /\ sleep' = 0
    /\ polls' = 0
    /\ page_num' = 0
    /\ nresults' = 0
    /\ i' = 0
    /\ result' = NoResult
    /\ h_calls' = 0
    /\ h_errors' = 0
    /\ h_retries' = 0
    /\ h_delay' = 0

\* The locals of _perform_search_with_validation are gone when it returns.
NoLocals ==
    /\ polls' = 0
    /\ page_num' = 0
    /\ nresults' = 0
    /\ i' = 0

NoAttemptHist ==
    /\ h_seen' = 0
    /\ h_last' = <<0, 0>>
    /\ h_matches' = 0
    /\ h_navs' = 0
    /\ h_pages' = 0
    /\ h_captcha' = FALSE

\* History of the sessions: the worker of the session that start_tracking
\* (1387-1395) started last, the live workers whose session stop_tracking
\* (1397-1408) was called for, and, for every _reset_ui_state callback that
\* waits in the event queue (1481), whether a stopped session scheduled it.
NoThreadHist == [session |-> 0, stopped |-> {}, stale |-> <<>>]

\* no start_tracking is between its two halves
NoForm == [keywords |-> 0]

\* self.config_data = None (924)
NoConfig == [filename |-> FALSE, font_size |-> 0, save_location |-> "none"]

\* The tracker, the histories and the validator harness before anything ran.
Untouched ==
    /\ should_stop = FALSE
    /\ driver = "none"
    /\ browser = 0
    /\ attempt = 0
    /\ sleep = 0
    /\ polls = 0
    /\ page_num = 0
    /\ nresults = 0
    /\ i = 0
    /\ result = NoResult
    /\ h_calls = 0
    /\ h_errors = 0
    /\ h_retries = 0
    /\ h_delay = 0
    /\ h_seen = 0
    /\ h_last = <<0, 0>>
    /\ h_matches = 0
    /\ h_navs = 0
    /\ h_pages = 0
    /\ h_captcha = FALSE
    /\ h_returned = [k \in 1..MaxKeywords |-> 0]
    /\ h_handoffs = [k \in 1..MaxKeywords |-> 0]
    /\ v_pc = "idle"
    /\ v_scores = <<0, 0, 0, 0, 0, 0, 0>>
    /\ v_match = FALSE
    /\ v_conf = 0
    /\ v_result = NoResult
    /\ total_keywords = 0
    /\ processed_keywords = 0
    /\ successful_matches = 0
    /\ failed_matches = 0
    /\ processing_times = <<>>
    /\ confidence_scores = <<>>
    /\ errors_encountered = 0
    /\ retry_count = 0
    /\ keyword_started = FALSE
    /\ stats = NoStats
    /\ t_pc = [w \in 1..MaxWorkers |-> "none"]
    /\ t_todo = [w \in 1..MaxWorkers |-> 0]
    /\ t_resets = 0
    /\ t_hist = NoThreadHist
    /\ config_data = NoConfig
    /\ h_form = NoForm
    /\ x_fn = "none"
    /\ x_pc = "idle"
    /\ x_sel = 0
    /\ x_all = <<>>
    /\ x_out = <<>>
    /\ x_page = 0
    /\ x_seen = 0
    /\ x_cur = [raised |-> FALSE, valid |-> FALSE, container |-> "unchecked", url |-> 0]
    /\ d_pc = "idle"
    /\ d_url = NonString
    /\ d_clean = <<>>
    /\ d_again = <<>>
    /\ d_target = <<>>
    /\ d_match = <<FALSE, 0>>
    /\ s_title = <<>>
    /\ s_cand = NoCandidate
    /\ p_pc = "idle"
    /\ p_keywords = 0
    /\ p_max_pages = 0
    /\ p_idx = 0
    /\ p_page = 0
    /\ p_navs = 0
    /\ p_driver = "none"
    /\ total_keywords_p = 0
    /\ keywords_processed = 0
    /\ keywords_found = 0
    /\ keywords_not_found = 0
    /\ processing_times_p = <<>>
    /\ keyword_start_time = FALSE
    /\ h_completed = 0

\* The application after UltraProfessionalBARTGUI.__init__: no session.
Init ==
    /\ is_tracking = FALSE
    /\ current_tracker = 0
    /\ gui_pc = "ready"
    /\ reset_pending = FALSE
    /\ keywords = 0
    /\ max_pages = 0
    /\ idx = 0
    /\ pc = "idle"
    /\ Untouched

\* One keyword's tracker, just constructed by the session worker (1431-1442),
\* at the start of track_ranking_with_validation.
TrackerInit ==
    /\ is_tracking = TRUE
    /\ current_tracker = 1
    /\ gui_pc = "ready"
    /\ reset_pending = FALSE
    /\ keywords = 1
    /\ max_pages \in 1..MaxPages
    /\ idx = 1
    /\ pc = "attempt_top"
    /\ Untouched

\* ------------------------------------------------------------ GUI thread
\* start_tracking (1360-1395): ignored while is_tracking; otherwise the
\* validated inputs start a session and its worker thread.  A session is
\* started here only when no earlier worker thread is still alive and the
\* GUI loop has run the _reset_ui_state that worker scheduled.
StartTracking ==
    /\ gui_pc = "ready"
    /\ ~is_tracking
    /\ pc \in {"idle", "done"}
    /\ ~reset_pending
    /\ \E n \in 1..MaxKeywords, p \in 1..MaxPages :
          /\ keywords' = n
          /\ max_pages' = p
    /\ is_tracking' = TRUE
    /\ idx' = 1
    /\ pc' = "kw_loop"
    /\ h_returned' = [k \in 1..MaxKeywords |-> 0]
    /\ h_handoffs' = [k \in 1..MaxKeywords |-> 0]
    /\ UNCHANGED <<current_tracker, gui_pc, reset_pending, tracker_vars,
                   keyword_hist, attempt_hist, val_vars, ext_vars>>

\* stop_tracking, first half (1399-1405): the current tracker, if any, gets
\* should_stop and its browser is quit (UltraAccurateRankTracker.stop_tracking).
StopTracker ==
    /\ gui_pc = "ready"
    /\ is_tracking
    /\ gui_pc' = "stopping"
    /\ IF current_tracker # 0
       THEN /\ should_stop' = TRUE
            /\ driver' = IF driver = "none" THEN "none" ELSE "quit"
            /\ browser' = 0
       ELSE UNCHANGED <<should_stop, driver, browser>>
    /\ UNCHANGED <<is_tracking, current_tracker, reset_pending, worker_vars,
                   attempt, sleep, locals, result, hist_vars, val_vars, ext_vars>>

\* stop_tracking, second half (1407-1408) with _reset_ui_state (1487-1500)
StopFinish ==
    /\ gui_pc = "stopping"
    /\ is_tracking' = FALSE
    /\ current_tracker' = 0
    /\ gui_pc' = "ready"
    /\ UNCHANGED <<reset_pending, worker_vars, tracker_vars, hist_vars, val_vars, ext_vars>>

\* _reset_ui_state (1487-1500), run by the GUI loop when the worker scheduled it
ResetUiState ==
    /\ gui_pc = "ready"
    /\ reset_pending
    /\ reset_pending' = FALSE
    /\ is_tracking' = FALSE
    /\ current_tracker' = 0
    /\ UNCHANGED <<gui_pc, worker_vars, tracker_vars, hist_vars, val_vars, ext_vars>>

\* ----------------------------------------- session worker, lines 1410-1481
\* Top of the keyword loop (1423-1439): leave when the keywords are exhausted
\* or is_tracking is false, else create the keyword's tracker.
KeywordLoop ==
    /\ pc = "kw_loop"
    /\ IF idx > keywords \/ ~is_tracking
       THEN /\ pc' = "session_end"
            /\ UNCHANGED <<current_tracker, tracker_vars, keyword_hist>>
       ELSE /\ pc' = "track_call"
            /\ current_tracker' = idx
            /\ NewTracker
    /\ UNCHANGED <<is_tracking, gui_pc, reset_pending, keywords, max_pages, idx,
                   attempt_hist, session_hist, val_vars, ext_vars>>

\* Line 1442: self.current_tracker.track_ranking_with_validation().  When the
\* GUI has cleared current_tracker meanwhile the call raises and the outer
\* handler (1476) ends the session.
TrackCall ==
    /\ pc = "track_call"
    /\ pc' = IF current_tracker = 0 THEN "session_end" ELSE "attempt_top"
    /\ UNCHANGED <<gui_vars, keywords, max_pages, idx, tracker_vars, hist_vars, val_vars, ext_vars>>

\* ------------------------------- track_ranking_with_validation, 477-525
\* Variant: one attempt too many.
attempt_limit_plus_one == max_retries + 1

\* for attempt in range(self.max_retries)
attempt_limit == max_retries

\* Lines 482-489: the loop ends, or breaks on should_stop, or calls
\* _perform_search_with_validation.
AttemptTop ==
    /\ pc = "attempt_top"
    /\ IF attempt >= attempt_limit \/ should_stop
       THEN /\ pc' = "give_up"
            /\ UNCHANGED h_calls
       ELSE /\ pc' = "setup"
            /\ h_calls' = h_calls + 1
    /\ UNCHANGED <<gui_vars, keywords, max_pages, idx, tracker_vars, h_errors,
                   h_retries, h_delay, attempt_hist, session_hist, val_vars, ext_vars>>

\* ------------------------------ _perform_search_with_validation, 527-640
\* An exception inside the try block: the finally clause quits the browser
\* and the exception reaches the handler of track_ranking_with_validation.
Raise ==
    /\ pc' = "on_error"
    /\ driver' = "quit"
    /\ browser' = 0
    /\ NoLocals
    /\ NoAttemptHist

\* Variant: the browser of the first attempt is kept for the later ones.
first_browser == Min2(h_calls, 1)

\* self.driver = uc.Chrome(options=options): the browser of this call
new_browser == h_calls

\* Lines 530-549: uc.Chrome(...) and execute_script, both outside the try.
SetupBrowser ==
    /\ pc = "setup"
    /\ \/ /\ pc' = "on_error"              \* uc.Chrome raised
          /\ UNCHANGED <<driver, browser>>
       \/ /\ pc' = "on_error"              \* execute_script raised
          /\ driver' = "open"
          /\ browser' = new_browser
       \/ /\ pc' = "get_google"
          /\ driver' = "open"
          /\ browser' = new_browser
    /\ UNCHANGED <<gui_vars, keywords, max_pages, idx, should_stop, attempt,
                   sleep, locals, result, hist_vars, val_vars, ext_vars>>

\* Lines 552-553: self.driver.get("https://www.google.com")
GetGoogle ==
    /\ pc = "get_google"
    /\ \/ /\ driver = "open"
          /\ pc' = "wait_search"
          /\ UNCHANGED <<driver, browser, locals, attempt_hist>>
       \/ Raise
    /\ UNCHANGED <<gui_vars, keywords, max_pages, idx, should_stop, attempt,
                   sleep, result, keyword_hist, session_hist, val_vars, ext_vars>>

\* Variant: the wait has no timeout.
search_wait_unbounded == ~should_stop

\* while time.time() - start_time < timeout and not self.should_stop
search_wait_open == polls < MaxPolls /\ ~should_stop

\* enhanced_wait_for_search_ready, 442-475: one turn of the while loop.  A
\* turn that finds no usable search box (a CAPTCHA page or not) sleeps and
\* counts towards the timeout; the loop ends by raising.
WaitSearchReady ==
    /\ pc = "wait_search"
    /\ IF search_wait_open
       THEN \/ /\ driver = "open"          \* search box found and clicked
               /\ pc' = "do_search"
               /\ UNCHANGED <<driver, browser, locals, attempt_hist>>
            \/ /\ driver = "open"          \* no box; page_source read; sleep(1)
               /\ polls' = polls + 1
               /\ \E recaptcha \in BOOLEAN : h_captcha' = (h_captcha \/ recaptcha)
               /\ UNCHANGED <<pc, driver, browser, page_num, nresults, i,
                              h_seen, h_last, h_matches, h_navs, h_pages>>
            \/ Raise                       \* page_source raised
       ELSE Raise                          \* stopped, or not available in time
    /\ UNCHANGED <<gui_vars, keywords, max_pages, idx, should_stop, attempt,
                   sleep, result, keyword_hist, session_hist, val_vars, ext_vars>>

\* Lines 557-566: clear the box, type the keyword, press RETURN.
DoSearch ==
    /\ pc = "do_search"
    /\ \/ /\ driver = "open"
          /\ pc' = "wait_results"
          /\ UNCHANGED <<driver, browser, locals, attempt_hist>>
       \/ Raise
    /\ UNCHANGED <<gui_vars, keywords, max_pages, idx, should_stop, attempt,
                   sleep, result, keyword_hist, session_hist, val_vars, ext_vars>>

\* for page_num in range(1, self.max_pages + 1)
first_page == 1

\* Lines 569-573: WebDriverWait(self.driver, 15).until(results present)
WaitResults ==
    /\ pc = "wait_results"
    /\ \/ /\ driver = "open"
          /\ pc' = "page_top"
          /\ page_num' = first_page
          /\ polls' = 0
          /\ h_captcha' = FALSE             \* the searching phase is over
          /\ UNCHANGED <<driver, browser, nresults, i,
                         h_seen, h_last, h_matches, h_navs, h_pages>>
       \/ Raise
    /\ UNCHANGED <<gui_vars, keywords, max_pages, idx, should_stop, attempt,
                   sleep, result, keyword_hist, session_hist, val_vars, ext_vars>>

\* get_ultra_precise_organic_results returns unique_results[:10]: how many
\* candidates a page may yield (none once the browser is gone).
extracted_counts ==
    IF driver = "open" THEN 0..Min2(MaxResults, ResultsPerPage) ELSE {0}

\* for page_num in range(1, self.max_pages + 1): the loop goes on
page_in_range == page_num <= max_pages

\* Lines 576-585: top of the page loop.
PageTop ==
    /\ pc = "page_top"
    /\ IF ~page_in_range \/ should_stop
       THEN /\ pc' = "attempt_end"
            /\ UNCHANGED <<nresults, i, h_pages>>
       ELSE /\ pc' = "cand_top"
            /\ \E n \in extracted_counts : nresults' = n
            /\ i' = 0
            /\ h_pages' = h_pages + 1
    /\ UNCHANGED <<gui_vars, keywords, max_pages, idx, should_stop, driver, browser,
                   attempt, sleep, polls, page_num, result, keyword_hist,
                   h_seen, h_last, h_matches, h_navs, h_captcha, session_hist, val_vars, ext_vars>>

\* for i, result_element in enumerate(results): the loop goes on
candidate_left == i < nresults

\* Variant: every other candidate is skipped.
next_candidate_skip(k) == k + 2

\* enumerate(results): the index after k
next_candidate(k) == k + 1

\* Lines 588-626: one turn of the candidate loop.
ScanCandidate ==
    /\ pc = "cand_top"
    /\ IF ~candidate_left \/ should_stop
       THEN /\ pc' = "after_page"
            /\ UNCHANGED <<driver, browser, i, result, h_seen, h_last, h_matches>>
       ELSE /\ h_seen' = h_seen + 1
            /\ h_last' = <<page_num, i>>
            /\ \/ /\ pc' = "cand_top"      \* reading the element raised: skipped
                  /\ i' = next_candidate(i)
                  /\ UNCHANGED <<driver, browser, result, h_matches>>
               \/ /\ driver = "open"
                  /\ \E c \in SampleCandidates :
                        LET v == seven_layer_validation(c) IN
                        IF v[1]
                        THEN /\ result' = found_result(page_num, i, v[2])
                             /\ h_matches' = h_matches + 1
                             /\ driver' = "quit"
                             /\ browser' = 0
                             /\ pc' = "attempt_found"
                             /\ UNCHANGED i
                        ELSE /\ pc' = "cand_top"
                             /\ i' = next_candidate(i)
                             /\ UNCHANGED <<driver, browser, result, h_matches>>
    /\ UNCHANGED <<gui_vars, keywords, max_pages, idx, should_stop, attempt,
                   sleep, polls, page_num, nresults, keyword_hist, h_navs, h_pages,
                   h_captcha, session_hist, val_vars, ext_vars>>

\* Variant: pagination is tried after the last page too.
wants_next_page_incl_last == page_num <= max_pages /\ ~should_stop

\* if page_num < self.max_pages and not self.should_stop
wants_next_page == page_num < max_pages /\ ~should_stop

\* Lines 628-631 and _navigate_to_next_page (806-827).
AfterPage ==
    /\ pc = "after_page"
    /\ IF wants_next_page
       THEN /\ h_navs' = h_navs + 1
            /\ \/ /\ driver = "open"       \* a next button was clicked
                  /\ page_num' = page_num + 1
                  /\ pc' = "page_top"
               \/ /\ pc' = "attempt_end"   \* no usable next button: break
                  /\ UNCHANGED page_num
       ELSE /\ page_num' = page_num + 1
            /\ pc' = "page_top"
            /\ UNCHANGED h_navs
    /\ UNCHANGED <<gui_vars, keywords, max_pages, idx, should_stop, driver, browser,
                   attempt, sleep, polls, nresults, i, result, keyword_hist, h_seen,
                   h_last, h_matches, h_pages, h_captcha, session_hist, val_vars, ext_vars>>

\* elif attempt < self.max_retries - 1
retries_left == attempt < max_retries - 1

\* return None through the finally clause (633-640), then lines 495-499.
AttemptEnd ==
    /\ pc = "attempt_end"
    /\ driver' = "quit"
    /\ browser' = 0
    /\ NoLocals
    /\ NoAttemptHist
    /\ IF retries_left
       THEN /\ pc' = "delay"             \* record_retry(); time.sleep(2)
            /\ h_retries' = h_retries + 1
            /\ sleep' = 2
            /\ h_delay' = 2
            /\ UNCHANGED attempt
       ELSE /\ pc' = "attempt_top"
            /\ attempt' = attempt + 1
            /\ UNCHANGED <<sleep, h_retries, h_delay>>
    /\ UNCHANGED <<gui_vars, keywords, max_pages, idx, should_stop, result,
                   h_calls, h_errors, session_hist, val_vars, ext_vars>>

\* return result through the finally clause, then lines 491-494.
AttemptFound ==
    /\ pc = "attempt_found"
    /\ pc' = "handoff"
    /\ h_returned' = [h_returned EXCEPT ![idx] = @ + 1]
    /\ NoLocals
    /\ NoAttemptHist
    /\ UNCHANGED <<gui_vars, keywords, max_pages, idx, should_stop, driver, browser,
                   attempt, sleep, result, keyword_hist, h_handoffs, val_vars, ext_vars>>

\* except Exception (501-509)
OnError ==
    /\ pc = "on_error"
    /\ h_errors' = h_errors + 1
    /\ IF retries_left
       THEN /\ pc' = "delay"             \* time.sleep(3)
            /\ sleep' = 3
            /\ h_delay' = 3
       ELSE /\ pc' = "give_up"
            /\ UNCHANGED <<sleep, h_delay>>
    /\ UNCHANGED <<gui_vars, keywords, max_pages, idx, should_stop, driver, browser,
                   attempt, locals, result, h_calls, h_retries, attempt_hist,
                   session_hist, val_vars, ext_vars>>

\* time.sleep(2) / time.sleep(3) ends; the loop takes its next attempt number.
Delay ==
    /\ pc = "delay"
    /\ pc' = "attempt_top"
    /\ attempt' = attempt + 1
    /\ sleep' = 0
    /\ UNCHANGED <<gui_vars, keywords, max_pages, idx, should_stop, driver, browser,
                   locals, result, hist_vars, val_vars, ext_vars>>

\* Lines 511-525: the not-found result.
GiveUp ==
    /\ pc = "give_up"
    /\ result' = not_found_result
    /\ h_returned' = [h_returned EXCEPT ![idx] = @ + 1]
    /\ pc' = "handoff"
    /\ UNCHANGED <<gui_vars, keywords, max_pages, idx, should_stop, driver, browser,
                   attempt, sleep, locals, keyword_hist, attempt_hist, h_handoffs,
                   val_vars, ext_vars>>

\* Variant: the result is handed off whether or not the session was stopped.
hands_off_unchecked == TRUE

\* if result and not self.should_stop_tracking()
hands_off == is_tracking

\* Lines 1444-1460: the result goes to the document writer unless the
\* session was stopped; then the tracker is dropped (nothing refers to it
\* or to the result any more).
Handoff ==
    /\ pc = "handoff"
    /\ h_handoffs' = IF hands_off THEN [h_handoffs EXCEPT ![idx] = @ + 1]
                     ELSE h_handoffs
    /\ current_tracker' = 0
    /\ NewTracker
    /\ idx' = idx + 1
    /\ pc' = "kw_loop"
    /\ UNCHANGED <<is_tracking, gui_pc, reset_pending, keywords, max_pages,
                   attempt_hist, h_returned, val_vars, ext_vars>>

\* Lines 1462-1481: the finally clause schedules _reset_ui_state.
SessionEnd ==
    /\ pc = "session_end"
    /\ reset_pending' = TRUE
    /\ pc' = "done"
    /\ UNCHANGED <<is_tracking, current_tracker, gui_pc, keywords, max_pages, idx,
                   tracker_vars, hist_vars, val_vars, ext_vars>>

GuiNext == StartTracking \/ StopTracker \/ StopFinish \/ ResetUiState

TrackerNext ==
    \/ AttemptTop \/ SetupBrowser \/ GetGoogle \/ WaitSearchReady \/ DoSearch
    \/ WaitResults \/ PageTop \/ ScanCandidate \/ AfterPage \/ AttemptEnd
    \/ AttemptFound \/ OnError \/ Delay \/ GiveUp

WorkerNext == KeywordLoop \/ TrackCall \/ TrackerNext \/ Handoff \/ SessionEnd

Next == GuiNext \/ WorkerNext

Spec == Init /\ [][Next]_vars

\* One call of track_ranking_with_validation with the stop button beside it.
\* The thread that runs the call keeps running: the operating system
\* schedules it, and every step of the call is a bounded wait or a
\* computation.
TrackerStep == TrackerNext \/ StopTracker \/ StopFinish

TrackerSpec == TrackerInit /\ [][TrackerStep]_vars /\ WF_vars(TrackerNext)

\* ------------------------------------------------- the validator alone
\* _seven_layer_validation applied to every well-formed candidate, and the
\* result lines 604-622 build from its verdict.
Validate ==
    /\ v_pc = "idle"
    /\ \E c \in Candidates :
          /\ WellFormed(c)
          /\ v_scores' = validation_scores(c)
          /\ v_match' = seven_layer_validation(c)[1]
          /\ v_conf' = seven_layer_validation(c)[2]
    /\ v_pc' = "validated"
    /\ UNCHANGED <<gui_vars, worker_vars, tracker_vars, hist_vars, v_result, ext_vars>>

Report ==
    /\ v_pc = "validated"
    /\ \E p \in 1..MaxPages, k \in 0..(ResultsPerPage - 1) :
          v_result' = IF v_match THEN found_result(p, k, v_conf) ELSE NoResult
    /\ v_pc' = "reported"
    /\ UNCHANGED <<gui_vars, worker_vars, tracker_vars, hist_vars, v_scores,
                   v_match, v_conf, ext_vars>>

NextCandidate ==
    /\ v_pc = "reported"
    /\ v_pc' = "idle"
    /\ v_scores' = <<0, 0, 0, 0, 0, 0, 0>>
    /\ v_match' = FALSE
    /\ v_conf' = 0
    /\ v_result' = NoResult
    /\ UNCHANGED <<gui_vars, worker_vars, tracker_vars, hist_vars, ext_vars>>

ValidatorNext == Validate \/ Report \/ NextCandidate

ValidatorSpec == Init /\ [][ValidatorNext]_vars

\* ------------------------------------------- the statistics engine alone
\* The engine as the program drives it: start_tracking starts sessions, the
\* trackers of a session record into it, update_statistics polls it.
program_vars == <<gui_vars, worker_vars, tracker_vars, hist_vars, val_vars>>

\* start_session (329-333) with reset_stats (315-327); keyword_start_time is
\* not among the fields reset_stats sets.
StartSession ==
    /\ \E n \in SessionSizes : total_keywords' = n
    /\ processed_keywords' = 0
    /\ successful_matches' = 0
    /\ failed_matches' = 0
    /\ processing_times' = <<>>
    /\ confidence_scores' = <<>>
    /\ errors_encountered' = 0
    /\ retry_count' = 0
    /\ stats' = NoStats
    /\ UNCHANGED <<keyword_started, program_vars, thread_vars, extract_vars, domain_vars, scenario_vars, premium_vars>>

\* record_keyword_start (335-338)
RecordKeywordStart ==
    /\ ~no_session
    /\ keyword_started' = TRUE
    /\ stats' = NoStats
    /\ UNCHANGED <<total_keywords, processed_keywords, successful_matches,
                   failed_matches, processing_times, confidence_scores,
                   errors_encountered, retry_count, program_vars, thread_vars, extract_vars, domain_vars, scenario_vars, premium_vars>>

\* record_keyword_result (340-351)
RecordKeywordResult ==
    /\ keyword_started
    /\ processed_keywords < MaxRecords
    /\ \E d \in Durations : processing_times' = Append(processing_times, d)
    /\ processed_keywords' = processed_keywords + 1
    /\ \E found \in BOOLEAN, confidence \in Confidences :
          IF found
          THEN /\ successful_matches' = successful_matches + 1
               /\ confidence_scores' = Append(confidence_scores, confidence)
               /\ UNCHANGED failed_matches
          ELSE /\ failed_matches' = failed_matches + 1
               /\ UNCHANGED <<successful_matches, confidence_scores>>
    /\ stats' = NoStats
    /\ UNCHANGED <<total_keywords, errors_encountered, retry_count, keyword_started,
                   program_vars, thread_vars, extract_vars, domain_vars, scenario_vars, premium_vars>>

\* record_error (353-355)
RecordError ==
    /\ keyword_started
    /\ errors_encountered < MaxEvents
    /\ errors_encountered' = errors_encountered + 1
    /\ stats' = NoStats
    /\ UNCHANGED <<total_keywords, processed_keywords, successful_matches,
                   failed_matches, processing_times, confidence_scores,
                   retry_count, keyword_started, program_vars, thread_vars, extract_vars, domain_vars, scenario_vars, premium_vars>>

\* record_retry (357-359)
RecordRetry ==
    /\ keyword_started
    /\ retry_count < MaxEvents
    /\ retry_count' = retry_count + 1
    /\ stats' = NoStats
    /\ UNCHANGED <<total_keywords, processed_keywords, successful_matches,
                   failed_matches, processing_times, confidence_scores,
                   errors_encountered, keyword_started, program_vars, thread_vars, extract_vars, domain_vars, scenario_vars, premium_vars>>

\* update_statistics (1522-1551) calls get_current_stats; stats holds the
\* dictionary it got for as long as the engine has not changed since.
GetCurrentStats ==
    /\ stats' = get_current_stats
    /\ UNCHANGED <<engine_vars, program_vars, thread_vars, extract_vars, domain_vars, scenario_vars, premium_vars>>

StatsNext ==
    \/ StartSession \/ RecordKeywordStart \/ RecordKeywordResult
    \/ RecordError \/ RecordRetry \/ GetCurrentStats

StatsSpec == Init /\ [][StatsNext]_vars

\* ------------------------------------------ GUI and its worker threads
\* start_tracking, stop_tracking and _reset_ui_state with every worker thread
\* that is alive.  stop_tracking does not wait for the worker, so a new
\* session can start while the worker of a stopped one still runs.  A tracker
\* call is kept as its two ends: record_keyword_start at line 480 and
\* record_keyword_result at 493 or 513; current_tracker names the worker that
\* created the tracker.
Workers == 1..MaxWorkers

others_of_threads == <<reset_pending, worker_vars, tracker_vars, hist_vars, val_vars,
                       extract_vars, domain_vars, scenario_vars, premium_vars>>

\* What int(entry.get().strip()) makes of an entry: a number, or ValueError
Num(v) == [is_int |-> TRUE, value |-> v]

NotNumber == [is_int |-> FALSE, value |-> 0]

\* The input widgets when Start is pressed: the keywords text box (whether it
\* holds any text, and how many keywords the split at 1315 gives), the
\* domain, page limit, filename, save location and font size entries and the
\* font colour box.  These forms start a session:
UsualForms ==
    [ keywords_text : {TRUE},
      keywords : {1, MaxKeywords},
      domain : {TRUE},
      pages : {Num(1)},
      filename : {TRUE},
      location : {"exists"},
      font_size : {Num(8)},
      font_color : {TRUE} ]

\* The forms that are tried: a usual form, or one with one field changed.
Forms ==
    UsualForms
      \cup {[f EXCEPT !.keywords_text = FALSE, !.keywords = 0] : f \in UsualForms}
      \cup {[f EXCEPT !.keywords = k] : f \in UsualForms, k \in {0, 51}}
      \cup {[f EXCEPT !.domain = FALSE] : f \in UsualForms}
      \cup {[f EXCEPT !.pages = p] :
                f \in UsualForms, p \in {NotNumber, Num(0), Num(20), Num(21)}}
      \cup {[f EXCEPT !.filename = FALSE] : f \in UsualForms}
      \cup {[f EXCEPT !.location = l] : f \in UsualForms, l \in {"empty", "missing"}}
      \cup {[f EXCEPT !.font_size = n] :
                f \in UsualForms, n \in {NotNumber, Num(7), Num(72), Num(73)}}
      \cup {[f EXCEPT !.font_color = FALSE] : f \in UsualForms}

\* validate_inputs (1307-1358) -> <<returned a list, number of keywords>>;
\* None is <<FALSE, 0>>
validate_inputs_to_21(form) ==
    IF ~form.keywords_text THEN <<FALSE, 0>>
    ELSE IF form.keywords > 50 THEN <<FALSE, 0>>
    ELSE IF ~form.domain THEN <<FALSE, 0>>
    ELSE IF ~form.pages.is_int THEN <<FALSE, 0>>
    ELSE IF form.pages.value < 1 \/ form.pages.value > 21 THEN <<FALSE, 0>>
    ELSE IF ~form.filename THEN <<FALSE, 0>>
    ELSE IF form.location # "exists" THEN <<FALSE, 0>>
    ELSE IF ~form.font_size.is_int THEN <<FALSE, 0>>
    ELSE IF form.font_size.value < 8 \/ form.font_size.value > 72 THEN <<FALSE, 0>>
    ELSE <<TRUE, form.keywords>>

validate_inputs(form) ==
    IF ~form.keywords_text THEN <<FALSE, 0>>
    ELSE IF form.keywords > 50 THEN <<FALSE, 0>>
    ELSE IF ~form.domain THEN <<FALSE, 0>>
    ELSE IF ~form.pages.is_int THEN <<FALSE, 0>>
    ELSE IF form.pages.value < 1 \/ form.pages.value > 20 THEN <<FALSE, 0>>
    ELSE IF ~form.filename THEN <<FALSE, 0>>
    ELSE IF form.location # "exists" THEN <<FALSE, 0>>
    ELSE IF ~form.font_size.is_int THEN <<FALSE, 0>>
    ELSE IF form.font_size.value < 8 \/ form.font_size.value > 72 THEN <<FALSE, 0>>
    ELSE <<TRUE, form.keywords>>

\* start_tracking, lines 1362-1384.  A running session returns at once
\* (1362-1363); a form that validate_inputs rejects shows its error box
\* (messagebox.showerror, which returns when the user closes it) and returns
\* (1365-1367), as does an empty list of keywords; a font colour that is not
\* a key of FONT_COLORS raises KeyError inside the dictionary display
\* (1370-1375), before anything is assigned.  Otherwise config_data is set
\* and the session is marked as running.
start_tracking(forms) ==
    /\ gui_pc = "ready"
    /\ IF is_tracking
       THEN UNCHANGED <<is_tracking, gui_pc, config_data, h_form>>
       ELSE \E form \in forms :
               LET valid == validate_inputs(form)
               IN IF ~valid[1]
                     THEN /\ gui_pc' = "error_box"
                          /\ UNCHANGED <<is_tracking, config_data, h_form>>
                  ELSE IF valid[2] = 0 \/ ~form.font_color
                     THEN UNCHANGED <<is_tracking, gui_pc, config_data, h_form>>
                  ELSE /\ \E w \in Workers : t_pc[w] = "none"
                       /\ config_data' = [filename |-> form.filename,
                                          font_size |-> form.font_size.value,
                                          save_location |-> form.location]
                       /\ is_tracking' = TRUE
                       /\ h_form' = form
                       /\ gui_pc' = "start_session"
    /\ UNCHANGED <<current_tracker, t_pc, t_todo, t_resets, engine_vars, stats,
                   others_of_threads>>

ThreadStartBegin == start_tracking(Forms)

\* The user closes the error box of validate_inputs.
ThreadErrorBox ==
    /\ gui_pc = "error_box"
    /\ gui_pc' = "ready"
    /\ UNCHANGED <<is_tracking, current_tracker, t_pc, t_todo, t_resets, start_vars,
                   engine_vars, stats, others_of_threads>>

\* start_tracking, lines 1387-1395: stats_engine.start_session(len(keywords))
\* (319-333) in the GUI thread, then the worker thread is created and
\* started.
ThreadStartSession ==
    /\ gui_pc = "start_session"
    /\ \E w \in Workers :
          /\ t_pc[w] = "none"
          /\ t_pc' = [t_pc EXCEPT ![w] = "kw_loop"]
          /\ t_todo' = [t_todo EXCEPT ![w] = h_form.keywords]
    /\ total_keywords' = h_form.keywords
    /\ processed_keywords' = 0
    /\ successful_matches' = 0
    /\ failed_matches' = 0
    /\ processing_times' = <<>>
    /\ confidence_scores' = <<>>
    /\ errors_encountered' = 0
    /\ retry_count' = 0
    /\ stats' = NoStats
    /\ h_form' = NoForm
    /\ gui_pc' = "ready"
    /\ UNCHANGED <<is_tracking, current_tracker, t_resets, config_data, keyword_started,
                   others_of_threads>>

\* stop_tracking (1397-1408) with _reset_ui_state (1487-1500).  The tracker's
\* should_stop only shortens the call, which may return at any time here.
ThreadStop ==
    /\ gui_pc = "ready"
    /\ is_tracking
    /\ is_tracking' = FALSE
    /\ current_tracker' = 0
    /\ UNCHANGED <<gui_pc, t_pc, t_todo, t_resets, start_vars, engine_vars, stats,
                   others_of_threads>>

\* _reset_ui_state (1487-1500) as scheduled by a worker's finally clause
ThreadResetUi ==
    /\ gui_pc = "ready"
    /\ t_resets > 0
    /\ t_resets' = t_resets - 1
    /\ is_tracking' = FALSE
    /\ current_tracker' = 0
    /\ UNCHANGED <<gui_pc, t_pc, t_todo, start_vars, engine_vars, stats,
                   others_of_threads>>

\* Lines 1423-1439: top of the keyword loop of worker w.
ThreadKeywordLoop(w) ==
    /\ t_pc[w] = "kw_loop"
    /\ IF t_todo[w] = 0 \/ ~is_tracking
       THEN /\ t_pc' = [t_pc EXCEPT ![w] = "end"]
            /\ UNCHANGED current_tracker
       ELSE /\ t_pc' = [t_pc EXCEPT ![w] = "track_call"]
            /\ current_tracker' = w
    /\ UNCHANGED <<is_tracking, gui_pc, t_todo, t_resets, start_vars, engine_vars, stats,
                   others_of_threads>>

\* Line 1442 up to record_keyword_start (480); calling a method of None
\* raises and the handler at 1476 ends the session.
ThreadTrackCall(w) ==
    /\ t_pc[w] = "track_call"
    /\ t_pc' = [t_pc EXCEPT ![w] = IF current_tracker = 0 THEN "end" ELSE "call"]
    /\ UNCHANGED <<is_tracking, current_tracker, gui_pc, t_todo, t_resets, start_vars,
                   engine_vars, stats, others_of_threads>>

\* The call returns: record_keyword_result (493 or 513) was its last write.
ThreadCallReturn(w) ==
    /\ t_pc[w] = "call"
    /\ t_pc' = [t_pc EXCEPT ![w] = "handoff"]
    /\ UNCHANGED <<is_tracking, current_tracker, gui_pc, t_todo, t_resets, start_vars,
                   engine_vars, stats, others_of_threads>>

\* Lines 1444-1460: hand-off, then self.current_tracker = None.
ThreadHandoff(w) ==
    /\ t_pc[w] = "handoff"
    /\ t_pc' = [t_pc EXCEPT ![w] = "kw_loop"]
    /\ t_todo' = [t_todo EXCEPT ![w] = @ - 1]
    /\ current_tracker' = 0
    /\ UNCHANGED <<is_tracking, gui_pc, t_resets, start_vars, engine_vars, stats,
                   others_of_threads>>

\* self.root.after(0, self._reset_ui_state) at 1481: one more callback waits
scheduled_resets_none(n) == n

scheduled_resets(n) == n + 1

\* Lines 1462-1481: the finally clause schedules _reset_ui_state; the thread ends.
ThreadEnd(w) ==
    /\ t_pc[w] = "end"
    /\ t_resets < MaxWorkers
    /\ t_pc' = [t_pc EXCEPT ![w] = "none"]
    /\ t_todo' = [t_todo EXCEPT ![w] = 0]
    /\ t_resets' = scheduled_resets(t_resets)
    /\ UNCHANGED <<is_tracking, current_tracker, gui_pc, start_vars, engine_vars, stats,
                   others_of_threads>>

\* The history of the sessions, as one step changes it: the worker that
\* start_tracking created (1390-1395) is the worker of the current session;
\* stop_tracking (1407) stops the current session; a worker that ends hands
\* its _reset_ui_state to the event queue (1481), where the callbacks run in
\* the order they were scheduled.
RecordSessions ==
    t_hist' =
        IF \E w \in Workers : t_pc[w] = "none" /\ t_pc'[w] # "none"
        THEN [t_hist EXCEPT
                !.session = CHOOSE w \in Workers : t_pc[w] = "none" /\ t_pc'[w] # "none"]
        ELSE IF is_tracking /\ ~is_tracking' /\ t_resets' = t_resets
        THEN [t_hist EXCEPT !.stopped = @ \cup (Workers \cap {t_hist.session})]
        ELSE IF t_resets' < t_resets
        THEN [t_hist EXCEPT !.stale = Tail(@)]
        ELSE IF \E w \in Workers : t_pc[w] = "end" /\ t_pc'[w] = "none"
        THEN LET w == CHOOSE v \in Workers : t_pc[v] = "end" /\ t_pc'[v] = "none"
             IN [session |-> IF t_hist.session = w THEN 0 ELSE t_hist.session,
                 stopped |-> t_hist.stopped \ {w},
                 stale |-> Append(t_hist.stale, w \in t_hist.stopped)]
        ELSE t_hist

ThreadsNext ==
    \/ ThreadStartBegin /\ RecordSessions
    \/ ThreadErrorBox /\ RecordSessions
    \/ ThreadStartSession /\ RecordSessions
    \/ ThreadStop /\ RecordSessions
    \/ ThreadResetUi /\ RecordSessions
    \/ \E w \in Workers :
          \/ ThreadKeywordLoop(w) /\ RecordSessions
          \/ ThreadTrackCall(w) /\ RecordSessions
          \/ ThreadCallReturn(w) /\ RecordSessions
          \/ ThreadHandoff(w) /\ RecordSessions
          \/ ThreadEnd(w) /\ RecordSessions

ThreadsSpec == Init /\ [][ThreadsNext]_vars

\* The same program without the history of the sessions.
SessionsNext ==
    \/ ThreadStartBegin /\ UNCHANGED t_hist
    \/ ThreadErrorBox /\ UNCHANGED t_hist
    \/ ThreadStartSession /\ UNCHANGED t_hist
    \/ ThreadStop /\ UNCHANGED t_hist
    \/ ThreadResetUi /\ UNCHANGED t_hist
    \/ \E w \in Workers :
          \/ ThreadKeywordLoop(w) /\ UNCHANGED t_hist
          \/ ThreadTrackCall(w) /\ UNCHANGED t_hist
          \/ ThreadCallReturn(w) /\ UNCHANGED t_hist
          \/ ThreadHandoff(w) /\ UNCHANGED t_hist
          \/ ThreadEnd(w) /\ UNCHANGED t_hist

SessionsSpec == Init /\ [][SessionsNext]_vars

\* The steps of worker thread w
WorkerStep(w) ==
    \/ ThreadKeywordLoop(w) \/ ThreadTrackCall(w) \/ ThreadCallReturn(w)
    \/ ThreadHandoff(w) \/ ThreadEnd(w)

\* The forms with a list of at most MaxListed keywords, and the forms that
\* validate_inputs rejects for the length of their list
ShortForms ==
    {[f EXCEPT !.keywords = k] : f \in {g \in Forms : g.keywords = 1}, k \in 1..MaxListed}
        \cup {f \in Forms : f.keywords \notin 1..MaxKeywords}

\* The program with the short forms
SessionsLiveNext ==
    \/ start_tracking(ShortForms) /\ UNCHANGED t_hist
    \/ ThreadErrorBox /\ UNCHANGED t_hist
    \/ ThreadStartSession /\ UNCHANGED t_hist
    \/ ThreadStop /\ UNCHANGED t_hist
    \/ ThreadResetUi /\ UNCHANGED t_hist
    \/ \E w \in Workers :
          \/ ThreadKeywordLoop(w) /\ UNCHANGED t_hist
          \/ ThreadTrackCall(w) /\ UNCHANGED t_hist
          \/ ThreadCallReturn(w) /\ UNCHANGED t_hist
          \/ ThreadHandoff(w) /\ UNCHANGED t_hist
          \/ ThreadEnd(w) /\ UNCHANGED t_hist

\* The program keeps running: while the GUI has a handler to finish or a
\* callback of root.after(0, ...) (1481) to run, or a worker thread is alive,
\* one of them takes a step in the end; a tracker call returns (C1).  This
\* asks less than a fair schedule of every thread.  Pressing Start or Stop
\* and closing an error box are up to the user.
SessionsLiveSpec ==
    /\ Init
    /\ [][SessionsLiveNext]_vars
    /\ WF_vars((ThreadStartSession \/ ThreadResetUi \/ \E w \in Workers : WorkerStep(w))
                   /\ UNCHANGED t_hist)

\* The execution contexts that are writing the shared StatisticsEngine: the
\* GUI thread (context 0) inside start_session, a worker between the
\* record_keyword_start and the record_keyword_result of a tracker call.
StatsWriters ==
    {w \in Workers : t_pc[w] = "call"}
        \cup (IF gui_pc = "start_session" THEN {0} ELSE {})

\* ---------------------------------------------------- result extractors
\* UltraAccurateResultExtractor.get_ultra_precise_organic_results (BART-4,
\* 228-253) and get_premium_organic_results (Py1, 364-448).  A candidate is
\* [url, sel]: its href and the selector that produced it.  URLs are numbered
\* in order of first appearance.  x_page is the length of the list
\* find_elements returned, x_seen the number of its elements read so far and
\* x_cur the element read last.  The model tries MaxSelectors selectors (the
\* lists hold 15 and 10) and pages with at most MaxElements valid links, at
\* most one of them a repetition of the link before it.
Take(seq, n) == SubSeq(seq, 1, Min2(n, Len(seq)))

UrlsOf(seq) == {seq[k].url : k \in 1..Len(seq)}

NextUrl(seq) == Cardinality(UrlsOf(seq)) + 1

OfferedUrls(seq) ==
    {NextUrl(seq)} \cup
    (IF seq = <<>> \/ Cardinality(UrlsOf(seq)) < Len(seq) THEN {}
     ELSE {seq[Len(seq)].url})

\* What reading an element gives: the accessor raised, or the href failed the
\* URL filter, or the href passed it; container is the outcome of the
\* container checks made on it, where the function makes any.
NoElement == [raised |-> FALSE, valid |-> FALSE, container |-> "unchecked", url |-> 0]

RaisingElement == [raised |-> TRUE, valid |-> FALSE, container |-> "unchecked", url |-> 0]

Elements(seq, containers) ==
    {RaisingElement, NoElement} \cup
    (IF Len(seq) < MaxElements
     THEN {[raised |-> FALSE, valid |-> TRUE, container |-> c, url |-> u] :
              c \in containers, u \in OfferedUrls(seq)}
     ELSE {})

PageSizes == {0, 2, MaxElements, Py1ElementsChecked + 1}

LinkCounts == {0, 2, Py1LinksChecked + 1}

\* remove_duplicate_results (293-307): the first element of each URL is kept.
RECURSIVE remove_duplicate_results(_)
remove_duplicate_results(results) ==
    IF results = <<>> THEN <<>>
    ELSE LET front == remove_duplicate_results(SubSeq(results, 1, Len(results) - 1))
             last == results[Len(results)]
         IN IF last.url \in UrlsOf(front) THEN front ELSE Append(front, last)

\* Lines 251-253: unique_results[:10]
ultra_precise_return(all_results) ==
    Take(remove_duplicate_results(all_results), TopResults)

others_of_extract == <<program_vars, stats_vars, thread_vars, domain_vars, scenario_vars, premium_vars>>

\* A call of get_ultra_precise_organic_results (229-232).
ExtractCall ==
    /\ x_pc = "idle"
    /\ x_fn' = "BART-4"
    /\ x_pc' = "selector"
    /\ x_sel' = 1
    /\ x_all' = <<>>
    /\ x_out' = <<>>
    /\ UNCHANGED <<x_page, x_seen, x_cur>>
    /\ UNCHANGED others_of_extract

\* Lines 232-234 and 247-253: the next selector, or the return after the last.
ExtractSelector ==
    /\ x_fn = "BART-4"
    /\ x_pc = "selector"
    /\ IF x_sel > MaxSelectors
       THEN /\ x_out' = ultra_precise_return(x_all)
            /\ x_pc' = "done"
            /\ UNCHANGED <<x_sel, x_page, x_seen, x_cur>>
       ELSE \/ /\ x_pc' = "element"            \* find_elements returned
               /\ x_page' \in PageSizes
               /\ x_seen' = 0
               /\ x_cur' = NoElement
               /\ UNCHANGED <<x_sel, x_out>>
            \/ /\ x_sel' = x_sel + 1           \* find_elements raised: continue
               /\ UNCHANGED <<x_pc, x_out, x_page, x_seen, x_cur>>
    /\ UNCHANGED <<x_fn, x_all, others_of_extract>>

\* if all_results: break
selector_succeeded == x_all # <<>>

\* Lines 236-249: one element of the selector, or the end of its elements.
\* An exception of get_attribute is caught by the handler of the selector.
ExtractElement ==
    /\ x_fn = "BART-4"
    /\ x_pc = "element"
    /\ IF x_seen < x_page
       THEN \E e \in Elements(x_all, {"ok", "rejected"}) :
               /\ x_cur' = e
               /\ x_seen' = x_seen + 1
               /\ IF e.raised
                  THEN /\ x_sel' = x_sel + 1
                       /\ x_pc' = "selector"
                       /\ UNCHANGED <<x_all, x_out>>
                  ELSE /\ x_all' = IF e.valid /\ e.container = "ok"
                                   THEN Append(x_all, [url |-> e.url, sel |-> x_sel])
                                   ELSE x_all
                       /\ UNCHANGED <<x_pc, x_sel, x_out>>
       ELSE /\ IF selector_succeeded
               THEN /\ x_out' = ultra_precise_return(x_all)
                    /\ x_pc' = "done"
                    /\ UNCHANGED <<x_sel, x_all>>
               ELSE /\ x_sel' = x_sel + 1
                    /\ x_pc' = "selector"
                    /\ UNCHANGED <<x_all, x_out>>
            /\ UNCHANGED <<x_seen, x_cur>>
    /\ UNCHANGED <<x_fn, x_page, others_of_extract>>

\* A call of get_premium_organic_results (Py1, 326-364).
PremiumCall ==
    /\ x_pc = "idle"
    /\ x_fn' = "Py1"
    /\ x_pc' = "selector"
    /\ x_sel' = 1
    /\ x_all' = <<>>
    /\ x_out' = <<>>
    /\ UNCHANGED <<x_page, x_seen, x_cur>>
    /\ UNCHANGED others_of_extract

\* Py1 415: a selector with any valid result ends the call
strategy_succeeded(valid_results) == valid_results # <<>>

\* Py1 364-376 and 417-431: the next selector of the strategies and retries,
\* with a fresh valid_results; after the last one the emergency pass starts
\* with find_elements("a[href]"), whose exception ends the call with [].
PremiumSelector ==
    /\ x_fn = "Py1"
    /\ x_pc = "selector"
    /\ IF x_sel > MaxSelectors
       THEN \/ /\ x_pc' = "emergency"
               /\ x_page' \in LinkCounts
               /\ x_seen' = 0
               /\ x_cur' = NoElement
               /\ UNCHANGED <<x_sel, x_out>>
            \/ /\ x_pc' = "done"
               /\ x_out' = <<>>
               /\ UNCHANGED <<x_sel, x_page, x_seen, x_cur>>
       ELSE \/ /\ \E n \in PageSizes :
                     IF n = 0
                     THEN /\ x_sel' = x_sel + 1            \* if not elements: continue
                          /\ UNCHANGED <<x_pc, x_page, x_seen, x_cur>>
                     ELSE /\ x_pc' = "element"
                          /\ x_page' = n
                          /\ x_seen' = 0
                          /\ x_cur' = NoElement
                          /\ UNCHANGED x_sel
               /\ UNCHANGED x_out
            \/ /\ x_sel' = x_sel + 1                       \* find_elements raised
               /\ UNCHANGED <<x_pc, x_out, x_page, x_seen, x_cur>>
    /\ x_all' = <<>>
    /\ UNCHANGED <<x_fn, others_of_extract>>

\* elements[:15]
elements_checked(n) == Min2(n, Py1ElementsChecked)

\* Py1 378-415: one of elements[:15], or the end of the loop.
PremiumElement ==
    /\ x_fn = "Py1"
    /\ x_pc = "element"
    /\ IF x_seen < elements_checked(x_page)
       THEN \E e \in Elements(x_all, {"ok", "rejected", "raised"}), url_kept \in BOOLEAN :
               /\ x_cur' = e
               /\ x_seen' = x_seen + 1
               /\ IF \/ e.raised \/ ~e.valid
                     \/ e.url \in UrlsOf(x_all)            \* href in processed_urls
                     \/ e.container = "rejected"
                     \/ (e.container = "raised" /\ ~url_kept)
                  THEN UNCHANGED <<x_pc, x_all, x_out>>
                  ELSE /\ x_all' = Append(x_all, [url |-> e.url, sel |-> x_sel])
                       /\ IF e.container = "ok" /\ Len(x_all') >= Py1TopResults
                          THEN /\ x_out' = Take(x_all', Py1TopResults)   \* break, return
                               /\ x_pc' = "done"
                          ELSE UNCHANGED <<x_pc, x_out>>
               /\ UNCHANGED x_sel
       ELSE /\ IF strategy_succeeded(x_all)
               THEN /\ x_out' = Take(x_all, Py1TopResults)
                    /\ x_pc' = "done"
                    /\ UNCHANGED <<x_sel, x_all>>
               ELSE /\ x_sel' = x_sel + 1
                    /\ x_pc' = "selector"
                    /\ UNCHANGED <<x_all, x_out>>
            /\ UNCHANGED <<x_seen, x_cur>>
    /\ UNCHANGED <<x_fn, x_page, others_of_extract>>

\* all_links[:50]
links_examined_all(n) == n

links_examined(n) == Min2(n, Py1LinksChecked)

\* Py1 431-448: the emergency pass over all_links[:50].
PremiumEmergency ==
    /\ x_fn = "Py1"
    /\ x_pc = "emergency"
    /\ IF x_seen < links_examined(x_page)
       THEN \E e \in Elements(x_all, {"unchecked"}) :
               /\ x_cur' = e
               /\ x_seen' = x_seen + 1
               /\ IF e.raised \/ ~e.valid
                  THEN UNCHANGED <<x_pc, x_all, x_out>>
                  ELSE /\ x_all' = Append(x_all, [url |-> e.url, sel |-> x_sel])
                       /\ IF Len(x_all') >= Py1TopResults
                          THEN /\ x_out' = x_all'          \* break, return
                               /\ x_pc' = "done"
                          ELSE UNCHANGED <<x_pc, x_out>>
       ELSE /\ x_out' = x_all                  \* emergency_results, or []
            /\ x_pc' = "done"
            /\ UNCHANGED <<x_all, x_seen, x_cur>>
    /\ UNCHANGED <<x_fn, x_sel, x_page, others_of_extract>>

\* The caller takes the list; the next page is extracted by a new call.
ExtractReturn ==
    /\ x_pc = "done"
    /\ x_fn' = "none"
    /\ x_pc' = "idle"
    /\ x_sel' = 0
    /\ x_all' = <<>>
    /\ x_out' = <<>>
    /\ x_page' = 0
    /\ x_seen' = 0
    /\ x_cur' = NoElement
    /\ UNCHANGED others_of_extract

ExtractNext ==
    \/ ExtractCall \/ ExtractSelector \/ ExtractElement
    \/ PremiumCall \/ PremiumSelector \/ PremiumElement \/ PremiumEmergency
    \/ ExtractReturn

ExtractSpec == Init /\ [][ExtractNext]_vars

\* --------------------------------------------- normalizer and matcher
\* enhanced_clean_domain applied to an input and to its own output, and
\* fuzzy_domain_match of the cleaned domain against a cleaned target, as
\* _perform_search_with_validation calls them (573, 597, 649).
others_of_domain == <<program_vars, stats_vars, thread_vars, extract_vars, scenario_vars, premium_vars>>

\* max(ratio, partial_ratio, token_sort_ratio) of fuzzywuzzy, in hundredths:
\* partial_ratio is 100 when one string is contained in the other; any other
\* pair gets a value of the library that the model does not compute.
fuzz_confidences(relation) ==
    IF relation \in {"equal", "sub"} THEN {100} ELSE FuzzValues

CleanDomain ==
    /\ d_pc = "idle"
    /\ \E url \in DomainInputs :
          /\ d_url' = url
          /\ d_clean' = enhanced_clean_domain(url)
    /\ d_pc' = "cleaned"
    /\ UNCHANGED <<d_again, d_target, d_match, others_of_domain>>

CleanAgain ==
    /\ d_pc = "cleaned"
    /\ d_again' = enhanced_clean_domain(Str(d_clean))
    /\ d_pc' = "again"
    /\ UNCHANGED <<d_url, d_clean, d_target, d_match, others_of_domain>>

FuzzyMatch ==
    /\ d_pc = "cleaned"
    /\ \E target \in {d_clean} \cup {enhanced_clean_domain(Str(t)) : t \in TargetDomains} :
          LET relation == domain_relation(d_clean, target)
          IN /\ d_target' = target
             /\ \E f \in fuzz_confidences(relation) :
                   d_match' = fuzzy_domain_match([dom |-> relation, fuzz |-> f])
    /\ d_pc' = "matched"
    /\ UNCHANGED <<d_url, d_clean, d_again, others_of_domain>>

DomainReturn ==
    /\ d_pc \in {"again", "matched"}
    /\ d_pc' = "idle"
    /\ d_url' = NonString
    /\ d_clean' = <<>>
    /\ d_again' = <<>>
    /\ d_target' = <<>>
    /\ d_match' = <<FALSE, 0>>
    /\ UNCHANGED others_of_domain

DomainNext == CleanDomain \/ CleanAgain \/ FuzzyMatch \/ DomainReturn

DomainSpec == Init /\ [][DomainNext]_vars

\* ------------------------------------------------- the found scenario
\* The candidate at index 3 of page 1 with href
\* https://www.shop.example.com/sale, for target shop.example.com and keyword
\* shoes: lines 596-622 applied to it, for every title of TitleStrings and
\* every outcome of the container inspections.
ValidateScenario ==
    /\ v_pc = "idle"
    /\ \E title \in TitleStrings(MaxTokens), ctx \in CtxKinds, pos \in PosKinds,
          f \in fuzz_confidences(domain_relation(enhanced_clean_domain(Str(ScenarioHref)),
                                                 enhanced_clean_domain(Str(ScenarioTarget)))) :
          \E c \in {candidate_of(ScenarioHref, title, ScenarioTarget,
                                 ScenarioKeyword, f, ctx, pos)} :
             /\ s_title' = title
             /\ s_cand' = c
             /\ v_scores' = validation_scores(c)
             /\ v_match' = seven_layer_validation(c)[1]
             /\ v_conf' = seven_layer_validation(c)[2]
    /\ v_pc' = "validated"
    /\ UNCHANGED <<gui_vars, worker_vars, tracker_vars, hist_vars, v_result,
                   stats_vars, thread_vars, extract_vars, domain_vars, premium_vars>>

ReportScenario ==
    /\ v_pc = "validated"
    /\ v_result' = IF v_match THEN found_result(1, 3, v_conf) ELSE NoResult
    /\ v_pc' = "reported"
    /\ UNCHANGED <<gui_vars, worker_vars, tracker_vars, hist_vars, v_scores,
                   v_match, v_conf, ext_vars>>

NextScenario ==
    /\ v_pc = "reported"
    /\ v_pc' = "idle"
    /\ v_scores' = <<0, 0, 0, 0, 0, 0, 0>>
    /\ v_match' = FALSE
    /\ v_conf' = 0
    /\ v_result' = NoResult
    /\ s_title' = <<>>
    /\ s_cand' = NoCandidate
    /\ UNCHANGED <<gui_vars, worker_vars, tracker_vars, hist_vars,
                   stats_vars, thread_vars, extract_vars, domain_vars, premium_vars>>

ScenarioNext == ValidateScenario \/ ReportScenario \/ NextScenario

ScenarioSpec == Init /\ [][ScenarioNext]_vars

\* ------------------------------------------------- Py1: domain matching
\* advanced_domain_cleaning (166-218) and enhanced_target_matching (222-265)
\* as track_ranking_premium uses them for one link (954, 990, 995).
LabelChars == LowerLetters \cup Digits \cup {"-"}

\* the number of characters of t from position k on that are in chars
RECURSIVE run_of(_, _, _)
run_of(t, chars, k) ==
    IF k <= Len(t) /\ t[k] \in chars THEN 1 + run_of(t, chars, k + 1) ELSE 0

TrackingNames ==
    { <<"u", "t", "m", "_">>, <<"f", "b", "c", "l", "i", "d">>, <<"g", "c", "l", "i", "d">>, <<"r", "e", "f", "=">>, <<"s", "o", "u", "r", "c", "e", "=">> }

\* re.sub(r'[?&](utm_|fbclid|gclid|ref=|source=)[^&]*', '', t)
RECURSIVE sub_tracking(_)
sub_tracking(t) ==
    IF t = <<>> THEN <<>>
    ELSE IF Head(t) \in {"?", "&"} /\ \E name \in TrackingNames : startswith(Tail(t), name)
         THEN sub_tracking(drop(Tail(t), find_first(Tail(t), {"&"}, 1) - 1))
         ELSE <<Head(t)>> \o sub_tracking(Tail(t))

\* ([a-zA-Z0-9-]+\.[a-zA-Z]{2,}) matched at position p of a lower-case t:
\* the group, or the empty string when there is no match at p
domain_at(t, p) ==
    LET n == run_of(t, LabelChars, p)
        m == run_of(t, LowerLetters, p + n + 1)
    IN IF n >= 1 /\ p + n <= Len(t) /\ t[p + n] = "." /\ m >= 2
       THEN SubSeq(t, p, p + n + m)
       ELSE <<>>

\* (?:https?://)?(?:www\.)? from position s: the positions where the group
\* can start, in the order the regex engine tries them
group_starts(t, s) ==
    LET from_s == drop(t, s - 1)
        scheme == IF startswith(from_s, <<"h", "t", "t", "p", "s", ":", "/", "/">>) THEN 8
                  ELSE IF startswith(from_s, <<"h", "t", "t", "p", ":", "/", "/">>) THEN 7
                  ELSE 0
        www(p) == IF startswith(drop(t, p - 1), <<"w", "w", "w", ".">>) THEN <<p + 4, p>> ELSE <<p>>
    IN www(s + scheme) \o (IF scheme > 0 THEN www(s) ELSE <<>>)

\* re.search(pattern, t).group(1) for the patterns at 182 (prefixed) and 183
regex_search(t, prefixed) ==
    LET starts(s) == IF prefixed THEN group_starts(t, s) ELSE <<s>>
        group(s) == LET found == {k \in 1..Len(starts(s)) : domain_at(t, starts(s)[k]) # <<>>}
                    IN IF found = {} THEN <<>>
                       ELSE domain_at(t, starts(s)[CHOOSE k \in found : \A j \in found : k <= j])
        matching == {s \in 1..Len(t) : group(s) # <<>>}
    IN IF matching = {} THEN <<>>
       ELSE group(CHOOSE s \in matching : \A j \in matching : s <= j)

\* Lines 179-192: the fallback for a URL without a netloc
or_else(first, second) == IF first # <<>> THEN first ELSE second

regex_domain(t) == or_else(regex_search(t, TRUE), regex_search(t, FALSE))

major_platforms ==
    << <<"y", "o", "u", "t", "u", "b", "e", ".", "c", "o", "m">>, <<"f", "a", "c", "e", "b", "o", "o", "k", ".", "c", "o", "m">>, <<"t", "w", "i", "t", "t", "e", "r", ".", "c", "o", "m">>, <<"i", "n", "s", "t", "a", "g", "r", "a", "m", ".", "c", "o", "m">>, <<"l", "i", "n", "k", "e", "d", "i", "n", ".", "c", "o", "m">> >>

\* Lines 204-209: a host of a major platform becomes the platform
platform_domain(domain) ==
    LET hits == {k \in 1..Len(major_platforms) : endswith(domain, major_platforms[k])}
    IN IF hits = {} THEN domain
       ELSE major_platforms[CHOOSE k \in hits : \A j \in hits : k <= j]

\* re.match(r'^[a-zA-Z0-9][a-zA-Z0-9-]*\.[a-zA-Z]{2,}$', domain), line 214:
\* one label, one dot, letters
valid_domain_format(domain) ==
    LET n == run_of(domain, LabelChars, 1)
    IN /\ n >= 1
       /\ domain[1] # "-"
       /\ n < Len(domain)
       /\ domain[n + 1] = "."
       /\ Len(domain) - n - 1 >= 2
       /\ run_of(domain, LowerLetters, n + 2) = Len(domain) - n - 1

\* Lines 214-218: the domain if it has the valid format, "" otherwise
valid_or_empty(domain) == IF valid_domain_format(domain) THEN domain ELSE <<>>

\* advanced_domain_cleaning (166-218); an exception of urlparse gives ""
advanced_domain_cleaning(url) ==
    IF ~url.is_str \/ url.text = <<>> THEN <<>>
    ELSE LET u1 == sub_tracking(lower(strip(url.text, {" "})))
             parsed == urlparse_netloc(u1)
             d0 == or_else(parsed[2], regex_domain(u1))
             d1 == sub_prefix(d0, <<"w", "w", "w", ".">>)
             d2 == sub_prefix(d1, <<"m", ".">>)
             d3 == sub_prefix(d2, <<"m", "o", "b", "i", "l", "e", ".">>)
             d4 == sub_prefix(d3, <<"a", "m", "p", ".">>)
             d5 == platform_domain(sub_port(d4))
         IN IF parsed[1] \/ d0 = <<>> THEN <<>>
            ELSE valid_or_empty(lower(strip(d5, {" "})))

\* str.replace(old, '')
RECURSIVE remove_all(_, _)
remove_all(t, old) ==
    IF t = <<>> THEN <<>>
    ELSE IF startswith(t, old) THEN remove_all(drop(t, Len(old)), old)
    ELSE <<Head(t)>> \o remove_all(Tail(t), old)

\* Lines 228-265 for the two cleaned domains
cleaned_match(found_clean, target_clean) ==
    IF found_clean = <<>> \/ target_clean = <<>> THEN FALSE
    ELSE \/ found_clean = target_clean
         \/ /\ \E k \in 1..Len(found_clean) : found_clean[k] = "."
            /\ \E k \in 1..Len(target_clean) : target_clean[k] = "."
            /\ main_domain(found_clean) = main_domain(target_clean)
         \/ endswith(found_clean, <<".">> \o target_clean)
         \/ endswith(target_clean, <<".">> \o found_clean)
         \/ found_clean \in { <<"w", "w", "w", ".">> \o target_clean,
                              <<"m", ".">> \o target_clean,
                              <<"m", "o", "b", "i", "l", "e", ".">> \o target_clean,
                              remove_all(target_clean, <<"w", "w", "w", ".">>),
                              remove_all(target_clean, <<"m", ".">>),
                              remove_all(target_clean, <<"m", "o", "b", "i", "l", "e", ".">>) }

\* enhanced_target_matching (222-265)
enhanced_target_matching(found_domain, target_domain) ==
    IF found_domain = <<>> \/ target_domain = <<>> THEN FALSE
    ELSE cleaned_match(advanced_domain_cleaning(Str(found_domain)),
                       advanced_domain_cleaning(Str(target_domain)))

\* The result URLs: the shorter inputs of the normalizer and some with
\* tracking parameters, subdomains or hosts of the major platforms
Py1Urls ==
    {NonString} \cup {Str(t) : t \in TokenStrings(MaxTokens - 1) \cup WholeStrings} \cup
    { Str(<<"h", "t", "t", "p", "s", ":", "/", "/", "b", "l", "o", "g", ".", "e", "x", "a", "m", "p", "l", "e", ".", "c", "o", "m", "/", "p", "o", "s", "t">>),
      Str(<<"h", "t", "t", "p", "s", ":", "/", "/", "e", "x", "a", "m", "p", "l", "e", ".", "c", "o", "m", "/", "s", "a", "l", "e", "?", "r", "e", "f", "=", "a", "&", "x">>), Str(<<"h", "t", "t", "p", "s", ":", "/", "/", "e", "x", "a", "m", "p", "l", "e", ".", "c", "o", "m", "?", "u", "t", "m", "_", "a">>),
      Str(<<"h", "t", "t", "p", "s", ":", "/", "/", "m", "u", "s", "i", "c", ".", "y", "o", "u", "t", "u", "b", "e", ".", "c", "o", "m", "/", "w", "a", "t", "c", "h">>), Str(<<"h", "t", "t", "p", "s", ":", "/", "/", "e", "n", ".", "e", "x", "a", "m", "p", "l", "e", ".", "c", "o", "m", "/">>),
      Str(<<"e", "x", "a", "m", "p", "l", "e", ".", "c", "o", "m", "/", "s", "a", "l", "e">>), Str(<<"h", "t", "t", "p", ":", "/", "/", "s", "h", "o", "p", ".", "e", "x", "a", "m", "p", "l", "e", ".", "c", "o", "m", ":", "8", "0", "/">>) }

Py1Targets ==
    TargetDomains \cup { <<"w", "w", "w", ".", "e", "x", "a", "m", "p", "l", "e", ".", "c", "o", "m">>, <<"y", "o", "u", "t", "u", "b", "e", ".", "c", "o", "m">>, <<"c", "o", ".", "u", "k">> }

\* Py1 983-990: the URL of a link is cleaned
CleanLink ==
    /\ d_pc = "idle"
    /\ \E url \in Py1Urls, target \in Py1Targets :
          /\ d_url' = url
          /\ d_clean' = advanced_domain_cleaning(url)
          /\ d_target' = target
    /\ d_pc' = "link_cleaned"
    /\ UNCHANGED <<d_again, d_match, others_of_domain>>

\* Py1 954 and 995: the cleaned domain is matched against the cleaned target
MatchLink ==
    /\ d_pc = "link_cleaned"
    /\ \E target_clean \in {advanced_domain_cleaning(Str(d_target))} :
          d_match' = <<enhanced_target_matching(d_clean, target_clean), 0>>
    /\ d_pc' = "link_matched"
    /\ UNCHANGED <<d_url, d_clean, d_again, d_target, others_of_domain>>

\* the loop over the links goes on
NextLink ==
    /\ d_pc = "link_matched"
    /\ d_pc' = "idle"
    /\ d_url' = NonString
    /\ d_clean' = <<>>
    /\ d_target' = <<>>
    /\ d_match' = <<FALSE, 0>>
    /\ UNCHANGED <<d_again, others_of_domain>>

MatchNext == CleanLink \/ MatchLink \/ NextLink

MatchSpec == Init /\ [][MatchNext]_vars

\* ------------------------------------------------- Py1: premium tracker
\* A session of the Py1 GUI: start_tracking resets the StatisticsTracker and
\* starts run_premium_tracking, which calls track_ranking_premium once per
\* keyword.  h_completed counts the calls of complete_keyword_processing for
\* the current keyword.
others_of_premium ==
    <<program_vars, stats_vars, thread_vars, extract_vars, domain_vars, scenario_vars>>

\* The times that datetime.now() - self.keyword_start_time can give, in seconds
SampleTimes == {1}

\* deque(maxlen=50).append (Py1 84, 121): the oldest sample leaves a full deque
deque_append(times, sample) ==
    IF Len(times) < Py1TimesKept THEN Append(times, sample)
                                 ELSE Append(Tail(times), sample)

\* StatisticsTracker.reset_session (Py1 87-98) assigns the counters and the
\* derived figures; processing_times is assigned in __init__ only (84).  A
\* sample carries, as history, whether the current session recorded it.
reset_session(times) == [k \in 1..Len(times) |-> [times[k] EXCEPT !.current = FALSE]]

\* StatisticsTracker.complete_keyword_processing (Py1 109-123); processing
\* speed and estimated time remaining (125-152) are functions of
\* processing_times and the counters.
complete_keyword_processing(found) ==
    /\ keywords_processed' = keywords_processed + 1
    /\ keywords_found' = IF found THEN keywords_found + 1 ELSE keywords_found
    /\ keywords_not_found' = IF found THEN keywords_not_found ELSE keywords_not_found + 1
    /\ \E t \in SampleTimes :
          processing_times_p' =
              IF keyword_start_time
              THEN deque_append(processing_times_p, [time |-> t, current |-> TRUE])
              ELSE processing_times_p
    /\ h_completed' = h_completed + 1
    /\ UNCHANGED <<total_keywords_p, keyword_start_time>>

\* Py1 1837-1843: reset_session, update_total_keywords, the worker thread
PremiumStart ==
    /\ p_pc = "idle"
    /\ Len(processing_times_p) < MaxSamples
    /\ processing_times_p' = reset_session(processing_times_p)
    /\ UNCHANGED keyword_start_time
    /\ \E n \in 1..MaxKeywords, pages \in 1..MaxPages :
          /\ p_keywords' = n
          /\ p_max_pages' = pages
          /\ total_keywords_p' = n
    /\ keywords_processed' = 0
    /\ keywords_found' = 0
    /\ keywords_not_found' = 0
    /\ p_idx' = 1
    /\ p_pc' = "kw_loop"
    /\ UNCHANGED <<p_page, p_driver, h_completed, p_navs, others_of_premium>>

\* Py1 1860: the next keyword, or the end of the session
PremiumKeywordLoop ==
    /\ p_pc = "kw_loop"
    /\ p_pc' = IF p_idx > p_keywords THEN "done" ELSE "track"
    /\ h_completed' = 0
    /\ p_driver' = "none"
    /\ UNCHANGED <<p_keywords, p_max_pages, p_idx, p_page, tracker_stats, p_navs, timing_vars, others_of_premium>>

\* Py1 1865-1877 and 935-955: the tracker is created and track_ranking_premium
\* sets up the browser and searches.  An exception of the constructor is
\* caught by the worker (1897-1900), a failed setup or search by the handler
\* of track_ranking_premium.
PremiumSetup ==
    /\ p_pc = "track"
    /\ \/ /\ p_pc' = "page_top"
          /\ p_driver' = "open"
          /\ p_page' = 1
          /\ p_navs' = 0
          /\ keyword_start_time' = TRUE
          /\ UNCHANGED <<p_idx, tracker_stats, processing_times_p, h_completed>>
       \/ /\ p_pc' = "except"
          /\ p_driver' \in {"none", "open"}
          /\ keyword_start_time' = TRUE
          /\ UNCHANGED <<p_idx, p_page, p_navs, tracker_stats, processing_times_p,
                         h_completed>>
       \/ /\ complete_keyword_processing(FALSE)
          /\ p_pc' = "kw_loop"
          /\ p_idx' = p_idx + 1
          /\ UNCHANGED <<p_page, p_navs, p_driver>>
    /\ UNCHANGED <<p_keywords, p_max_pages, others_of_premium>>

\* Py1 958-978 and 1036-1047: the next page, or the not-found result.  A
\* failed wait is caught by the handler of the page and the loop continues.
PremiumPage ==
    /\ p_pc = "page_top"
    /\ IF p_page > p_max_pages
       THEN /\ p_pc' = "not_found"
            /\ UNCHANGED p_page
       ELSE \/ /\ p_driver = "open"            \* links extracted
               /\ p_pc' = "scan"
               /\ UNCHANGED p_page
            \/ /\ p_page' = p_page + 1         \* wait failed, or no links
               /\ UNCHANGED p_pc
    /\ UNCHANGED <<p_keywords, p_max_pages, p_idx, p_driver, tracker_stats,
                   h_completed, p_navs, timing_vars, others_of_premium>>

\* Py1 981-1013 and 1021-1026: the links of the page; a match is counted at
\* once, before the browser is closed.  Reading a link of a closed browser
\* raises and the link is skipped.
PremiumScan ==
    /\ p_pc = "scan"
    /\ \/ /\ p_driver = "open"
          /\ complete_keyword_processing(TRUE)
          /\ p_pc' = "quit_found"
          /\ UNCHANGED <<p_page, p_navs>>
       \/ /\ IF p_page < p_max_pages
             THEN \/ /\ p_driver = "open"      \* navigate_to_next_page
                     /\ p_page' = p_page + 1
                     /\ p_navs' = p_navs + 1
                     /\ p_pc' = "page_top"
                  \/ /\ p_pc' = "not_found"    \* it returned False: break
                     /\ UNCHANGED <<p_page, p_navs>>
             ELSE /\ p_page' = p_page + 1
                  /\ p_pc' = "page_top"
                  /\ UNCHANGED p_navs
          /\ UNCHANGED <<tracker_stats, timing_vars, h_completed>>
    /\ UNCHANGED <<p_keywords, p_max_pages, p_idx, p_driver, others_of_premium>>

\* Py1 1015-1020: self.driver.quit() and the return of the found result, both
\* inside the try of the link: an exception of quit is caught there and the
\* loop over the links continues.
PremiumQuitFound ==
    /\ p_pc = "quit_found"
    /\ \/ /\ p_driver' = "quit"
          /\ p_pc' = "returned"
       \/ /\ p_driver' = "broken"
          /\ p_pc' = "scan"
    /\ UNCHANGED <<p_keywords, p_max_pages, p_idx, p_page, tracker_stats,
                   h_completed, p_navs, timing_vars, others_of_premium>>

\* Py1 1036-1048: the not-found result is counted
PremiumNotFound ==
    /\ p_pc = "not_found"
    /\ complete_keyword_processing(FALSE)
    /\ p_pc' = "quit_not_found"
    /\ UNCHANGED <<p_keywords, p_max_pages, p_idx, p_page, p_driver, p_navs, others_of_premium>>

\* Py1 1050-1051: self.driver.quit() and the return, inside the outer try
PremiumQuitNotFound ==
    /\ p_pc = "quit_not_found"
    /\ \/ /\ p_driver' = "quit"
          /\ p_pc' = "returned"
       \/ /\ p_driver' = "broken"
          /\ p_pc' = "except"
    /\ UNCHANGED <<p_keywords, p_max_pages, p_idx, p_page, tracker_stats,
                   h_completed, p_navs, timing_vars, others_of_premium>>

\* Py1 1053-1075: the handler counts the keyword as not found, closes the
\* browser without letting that raise and returns the error result.
PremiumExcept ==
    /\ p_pc = "except"
    /\ complete_keyword_processing(FALSE)
    /\ p_driver' = IF p_driver = "none" THEN "none" ELSE "quit"
    /\ p_pc' = "returned"
    /\ UNCHANGED <<p_keywords, p_max_pages, p_idx, p_page, p_navs, others_of_premium>>

\* Py1 1879-1895: the document is written and the loop goes on
PremiumReturn ==
    /\ p_pc = "returned"
    /\ p_idx' = p_idx + 1
    /\ p_page' = 0
    /\ p_navs' = 0
    /\ p_pc' = "kw_loop"
    /\ UNCHANGED <<p_keywords, p_max_pages, p_driver, tracker_stats, h_completed,
                   timing_vars, others_of_premium>>

\* Py1 1902-1909: the end of the session; the GUI is ready for the next one.
PremiumDone ==
    /\ p_pc = "done"
    /\ p_pc' = "idle"
    /\ p_keywords' = 0
    /\ p_max_pages' = 0
    /\ p_idx' = 0
    /\ p_page' = 0
    /\ total_keywords_p' = 0
    /\ keywords_processed' = 0
    /\ keywords_found' = 0
    /\ keywords_not_found' = 0
    /\ UNCHANGED <<p_driver, h_completed, p_navs, timing_vars, others_of_premium>>

PremiumNext ==
    \/ PremiumStart \/ PremiumKeywordLoop \/ PremiumSetup \/ PremiumPage
    \/ PremiumScan \/ PremiumQuitFound \/ PremiumNotFound \/ PremiumQuitNotFound
    \/ PremiumExcept \/ PremiumReturn \/ PremiumDone

PremiumSpec == Init /\ [][PremiumNext]_vars

\* ======================================================== properties
\* The program points inside the try block of _perform_search_with_validation.
InTry ==
    pc \in {"get_google", "wait_search", "do_search", "wait_results", "page_top",
            "cand_top", "after_page"}

\* C1: one call of track_ranking_with_validation starts at most max_retries
\* crawl attempts (calls of _perform_search_with_validation) and returns,
\* whatever the attempts meet: a match, no match, an exception, a search box
\* that never gets ready, a block page, a stop request.
C1_BoundedAttemptsAndReturn ==
    /\ [](h_calls <= max_retries)
    /\ <>(pc = "handoff")

\* Every one of the max_retries attempts raised and the call has returned.
C1_Witness ==
    /\ pc = "handoff"
    /\ h_calls = max_retries
    /\ h_errors = max_retries
    /\ ~should_stop

C3_MatchNeedsBothThresholds ==
    /\ (v_pc # "idle" /\ v_match)
          => /\ v_conf * 100 >= 85 * ConfUnit
             /\ \A k \in 1..7 : v_scores[k] >= 70
    /\ (v_pc # "idle" /\ (\E k \in 1..7 : v_scores[k] < 70)) => ~v_match
    /\ v_result.found => v_result.confidence * 100 >= 85 * ConfUnit

\* A match below full confidence, reported as a found result.
C3_Witness ==
    /\ v_pc = "reported"
    /\ v_match
    /\ v_result.found
    /\ v_scores[1] = 85
    /\ v_result.confidence < ConfUnit

\* C4: the confidence _seven_layer_validation returns is
\* (mean(L1..L7) + min(L1..L7)) / 2; every layer score lies in [0,1] and so
\* does the confidence.
C4_ConfidenceFormulaAndRange ==
    v_pc # "idle" =>
        LET total == v_scores[1] + v_scores[2] + v_scores[3] + v_scores[4]
                     + v_scores[5] + v_scores[6] + v_scores[7]
            least == CHOOSE m \in {v_scores[k] : k \in 1..7} :
                        \A k \in 1..7 : m <= v_scores[k]
        IN /\ \A k \in 1..7 : v_scores[k] \in 0..100
           /\ v_conf = total + 7 * least
           /\ v_conf \in 0..ConfUnit

\* Mixed layer scores: mean 675/700, minimum 0.85, confidence 1270/1400.
C4_Witness ==
    /\ v_pc = "validated"
    /\ v_scores = <<85, 100, 90, 100, 100, 100, 100>>
    /\ v_conf = 1270

\* C5: in one crawl attempt the candidates are validated in rank order, page
\* by page, and the attempt ends in a found result at the first candidate
\* whose validation returns is_match: nothing before it matched, nothing is
\* examined after it.
C5_FirstMatchInRankOrder ==
    /\ [](h_matches <= 1)
    /\ [](h_matches = 1 =>
             /\ pc = "attempt_found"
             /\ result.found
             /\ result.page = h_last[1]
             /\ h_last = <<page_num, i>>)
    /\ [][(h_last' # h_last /\ h_last' # <<0, 0>>) =>
             /\ h_matches = 0
             /\ h_last'[1] \in 1..max_pages
             /\ IF h_last'[1] = h_last[1]
                THEN h_last'[2] = h_last[2] + 1
                ELSE h_last'[1] > h_last[1] /\ h_last'[2] = 0]_vars

\* A match at the second candidate of page 2, after page 1 held no match.
C5_Witness ==
    /\ pc = "attempt_found"
    /\ h_last = <<2, 1>>
    /\ h_seen >= 3
    /\ h_matches = 1

\* C6: a found result reports position = (page - 1) * 10 + index_in_page + 1,
\* from the page number and the candidate's index on that page, not from a
\* count of the results seen: a short page does not shift later pages.
C6_PositionFromPageAndIndex ==
    /\ pc = "attempt_found" =>
          /\ result.found
          /\ result.page = h_last[1]
          /\ result.position = (h_last[1] - 1) * 10 + h_last[2] + 1
    /\ result.found =>
          /\ result.page \in 1..max_pages
          /\ result.position \in ((result.page - 1) * 10 + 1)..(result.page * 10)

\* Page 1 held one candidate; the match is the fourth candidate of page 2.
C6_Witness ==
    /\ pc = "attempt_found"
    /\ result.page = 2
    /\ result.position = 14
    /\ h_last = <<2, 3>>
    /\ h_seen = 5

\* The end of a page's scan without a match, as C7 states it: below max_pages
\* exactly one pagination is attempted, on the last page none.
AfterPageStep == pc = "after_page" /\ pc' # pc

C7_Original ==
    /\ [](h_pages <= max_pages)
    /\ [][AfterPageStep =>
             IF page_num < max_pages
             THEN /\ h_navs' = h_navs + 1
                  /\ \/ pc' = "page_top" /\ page_num' = page_num + 1
                     \/ pc' = "attempt_end"
             ELSE /\ h_navs' = h_navs
                  /\ pc' = "page_top"
                  /\ page_num' > max_pages]_vars

\* C7 as amended: when page n yields no match and should_stop is not set, if
\* n < max_pages exactly one pagination is attempted and the attempt goes on
\* with page n+1 on success or ends without a result on failure; if
\* n == max_pages, or should_stop is set, no pagination is attempted and the
\* attempt ends without a result.  No attempt scans more than max_pages pages.
C7_PaginationUnlessStopped ==
    /\ [](h_pages <= max_pages)
    /\ [](pc \in {"cand_top", "after_page"} => page_num \in 1..max_pages)
    /\ [][AfterPageStep =>
             IF page_num < max_pages /\ ~should_stop
             THEN /\ h_navs' = h_navs + 1
                  /\ \/ /\ pc' = "page_top"
                        /\ page_num' = page_num + 1
                        /\ page_num' <= max_pages
                     \/ pc' = "attempt_end"
             ELSE /\ h_navs' = h_navs
                  /\ pc' = "page_top"
                  /\ (page_num' > max_pages \/ should_stop)]_vars
    /\ [][(pc = "page_top" /\ pc' # pc /\ (page_num > max_pages \/ should_stop))
             => pc' = "attempt_end"]_vars
    /\ [][(pc = "attempt_end" /\ pc' # pc) => ~result'.found]_vars

\* Page 1 held no match, one pagination succeeded, page 2 is being scanned.
C7_Witness ==
    /\ pc = "cand_top"
    /\ page_num = 2
    /\ h_navs = 1
    /\ h_pages = 2
    /\ ~should_stop

\* C8 as stated: once should_stop is set the tracker enters no further retry
\* delay, results wait, page scan, pagination or crawl attempt.
C8_NoWaitAfterStop ==
    [][(should_stop /\ pc' # pc) =>
          /\ pc' \notin {"delay", "wait_results", "cand_top", "setup"}
          /\ h_navs' <= h_navs]_vars

\* C9 as stated, in its part about what follows the delay: a delay between
\* attempts is always followed by the start of a fresh attempt.
C9_Original ==
    [][(pc = "attempt_top" /\ pc' # pc /\ attempt \in 1..(max_retries - 1))
          => pc' = "setup"]_vars

\* C9 as amended: after an attempt that raised or ended without a match, if
\* attempts remain the controller delays and then, unless should_stop has
\* been set, starts a completely fresh attempt: a new browser, a new search,
\* scanning from page 1 and its first candidate.  No attempt resumes from the
\* page or candidate index an earlier attempt reached.
C9_FreshAttemptAfterDelay ==
    /\ [][(pc \in {"attempt_end", "on_error"} /\ pc' # pc /\ attempt < max_retries - 1)
             => pc' = "delay" /\ sleep' > 0]_vars
    /\ [][(pc' = "attempt_top" /\ pc' # pc /\ attempt' \in 1..(max_retries - 1))
             => pc = "delay"]_vars
    /\ [][(pc = "attempt_top" /\ pc' # pc /\ attempt \in 1..(max_retries - 1))
             => IF should_stop THEN pc' = "give_up" ELSE pc' = "setup"]_vars
    /\ [](pc = "setup" =>
             /\ polls = 0 /\ page_num = 0 /\ nresults = 0 /\ i = 0
             /\ h_pages = 0 /\ h_seen = 0 /\ h_navs = 0
             /\ h_calls = attempt + 1)
    /\ []((InTry /\ driver = "open") => browser = h_calls)
    /\ [][(pc' = "wait_results" /\ pc' # pc) => pc = "do_search"]_vars
    /\ [][(pc' = "page_top" /\ pc \notin {"page_top", "after_page"})
             => /\ pc = "wait_results"
                /\ page_num' = 1
                /\ h_pages = 0
                /\ h_seen = 0]_vars

\* The third attempt, after one attempt that raised and one without a match,
\* scans page 1 in its own browser.
C9_Witness ==
    /\ pc = "cand_top"
    /\ attempt = 2
    /\ h_errors = 1
    /\ page_num = 1
    /\ i = 0
    /\ driver = "open"
    /\ browser = 3

\* C10 as stated, for a call that was not stopped: the not-found result
\* carries the number of crawl attempts performed and, when attempts raised,
\* an error tag.
C10_NotFoundAnnotated ==
    (pc = "handoff" /\ ~result.found /\ ~should_stop) =>
        /\ result.has_attempts
        /\ result.attempts = h_calls
        /\ (h_errors > 0 => result.has_error)

\* C11 as stated: when the first k attempts of a keyword raise and attempt
\* k+1 finds the match, the statistics have recorded k retries for the keyword
\* when the result is returned.
C11_RetriesCountFailedAttempts ==
    (pc = "handoff" /\ result.found /\ h_calls >= 1 /\ h_errors = h_calls - 1)
        => h_retries = h_calls - 1

\* C12 as stated: within one call the delays between consecutive attempts
\* never decrease.
C12_DelaysNonDecreasing ==
    [][(pc' = "delay" /\ pc # "delay" /\ h_delay > 0) => sleep' >= h_delay]_vars

C14_BrowserQuitAfterAttempt ==
    pc \in {"on_error", "delay", "attempt_top", "give_up", "handoff"}
        => driver # "open"

\* C15: whenever get_current_stats is called, the accuracy it reports is
\* 100 * matched / max(1, processed) and the progress 100 * processed / total
\* (both rounded to two decimals; progress is 0 while no keyword is
\* scheduled): with nothing processed the accuracy is 0, and with 3 of 10
\* keywords processed and 2 matched the accuracy is 66.67 and the progress 30.
C15_AccuracyAndProgress ==
    stats.called =>
        LET den == IF processed_keywords >= 1 THEN processed_keywords ELSE 1
            acc_err == stats.accuracy * den - 10000 * successful_matches
            prog_err == stats.progress * total_keywords - 10000 * processed_keywords
        IN /\ 2 * acc_err <= den /\ 2 * acc_err >= -den
           /\ total_keywords > 0 =>
                 2 * prog_err <= total_keywords /\ 2 * prog_err >= -total_keywords
           /\ total_keywords = 0 => stats.progress = 0 /\ stats.accuracy = 0
           /\ processed_keywords = 0 => stats.accuracy = 0
           /\ (total_keywords = 10 /\ processed_keywords = 3 /\ successful_matches = 2)
                 => stats.accuracy = 6667 /\ stats.progress = 3000

\* The statistics polled with 3 of 10 keywords processed and 2 matched.
C15_Witness ==
    /\ stats.called
    /\ total_keywords = 10
    /\ processed_keywords = 3
    /\ successful_matches = 2
    /\ stats.accuracy = 6667
    /\ stats.progress = 3000

\* C16: get_current_stats never divides by zero and never raises, whatever
\* start_session, record_keyword_start, record_keyword_result, record_error
\* and record_retry did before; without timing samples the processing speed
\* and the estimated remaining time are 0, and while no keyword is scheduled
\* every metric is 0.
C16_NeverRaisesZeroDefaults ==
    stats.called =>
        /\ ~stats.raised
        /\ Len(processing_times) = 0 =>
              stats.processing_speed = 0 /\ stats.estimated_remaining = 0
        /\ Len(confidence_scores) = 0 => stats.avg_confidence = 0
        /\ total_keywords = 0 =>
              /\ stats.accuracy = 0 /\ stats.success_rate = 0
              /\ stats.processing_speed = 0 /\ stats.avg_confidence = 0
              /\ stats.progress = 0 /\ stats.estimated_remaining = 0
              /\ stats.errors = 0 /\ stats.retries = 0

\* A session with an error and a retry recorded and no keyword finished yet.
C16_Witness ==
    /\ stats.called
    /\ total_keywords = 3
    /\ processed_keywords = 0
    /\ processing_times = <<>>
    /\ errors_encountered = 1
    /\ retry_count = 1
    /\ stats.errors = 1

\* C17 as stated: the stored durations are a moving window, so their number
\* stays below the number of keywords processed once that number has passed
\* the window; here for the largest window the bound on processed keywords
\* leaves room for.
C17_WindowBounded ==
    processed_keywords >= MaxRecords => Len(processing_times) < processed_keywords

\* C18 as stated: at every point of every interleaving of the GUI actions
\* and the worker threads, at most one execution context is writing the
\* shared StatisticsEngine.
C18_SingleWriter ==
    Cardinality(StatsWriters) <= 1

\* C19 as stated: whatever the page holds, the list an extractor returns has
\* at most 10 candidates and no two of them have the same URL.
C19_AtMostTenNoDuplicates ==
    x_pc = "done" =>
        /\ Len(x_out) <= 10
        /\ \A a, b \in 1..Len(x_out) : a # b => x_out[a].url # x_out[b].url

\* C20 as stated: every candidate get_ultra_precise_organic_results returns
\* comes from one and the same selector, the first that yielded a valid
\* result.
C20_OneSelectorOnly ==
    (x_fn = "BART-4" /\ x_pc = "done") =>
        \A a, b \in 1..Len(x_out) : x_out[a].sel = x_out[b].sel

\* C21 as stated: when reading one element of a selector's list fails, only
\* that element is skipped: as long as elements of the list are unread,
\* get_ultra_precise_organic_results goes on reading them.
C21_ElementErrorSkipsOnlyElement ==
    (x_fn = "BART-4" /\ x_cur.raised /\ x_seen < x_page) => x_pc = "element"

\* C22: the emergency pass of get_premium_organic_results starts only after
\* every selector was tried and left with no valid result, is not entered a
\* second time, reads at most 50 links, keeps exactly the links passing the
\* URL filter and returns at most 10 of them.
C22_EmergencyPass ==
    /\ [](x_pc = "emergency" => (x_fn = "Py1" /\ x_sel > MaxSelectors /\ x_seen <= 50))
    /\ []((x_fn = "Py1" /\ x_pc = "done" /\ x_sel > MaxSelectors) =>
            (Len(x_out) <= 10 /\ x_seen <= 50))
    /\ [][(x_fn = "Py1" /\ x_sel' = x_sel + 1) => x_all = <<>>]_vars
    /\ [][(x_pc # "emergency" /\ x_pc' = "emergency") =>
            (x_pc = "selector" /\ x_all = <<>> /\ x_sel > MaxSelectors)]_vars
    /\ [][x_pc = "emergency" => x_pc' \in {"emergency", "done"}]_vars
    /\ [][(x_pc = "emergency" /\ x_seen' = x_seen + 1) =>
            x_all' = IF x_cur'.valid
                     THEN Append(x_all, [url |-> x_cur'.url, sel |-> x_sel])
                     ELSE x_all]_vars
    /\ [][(x_pc = "emergency" /\ x_pc' = "done") => x_out' = x_all']_vars

C22_Witness ==
    /\ x_fn = "Py1" /\ x_pc = "done" /\ x_sel > MaxSelectors
    /\ x_page > 50 /\ x_seen = 50
    /\ x_out # <<>> /\ Len(x_out) < 10

\* C23 as stated: cleaning a cleaned domain again gives the same domain.
C23_CleanIdempotent == d_pc = "again" => d_again = d_clean

\* C24 as stated: a non-empty output of the normalizer matches itself with
\* confidence 1.0.
C24_SelfMatch ==
    (d_pc = "matched" /\ d_clean # <<>> /\ d_target = d_clean) => d_match = <<TRUE, 100>>

DotSuffix(a, b) ==
    /\ a # <<>>
    /\ Len(a) < Len(b)
    /\ SubSeq(b, Len(b) - Len(a) + 1, Len(b)) = a
    /\ b[Len(b) - Len(a)] = "."

\* C25 as stated: when one of two normalized domains is a proper dot-suffix
\* of the other the match has confidence 0.9, and confidence 1.0 is returned
\* only for equal normalized domains.
C25_SubdomainConfidence ==
    d_pc = "matched" =>
        /\ (DotSuffix(d_clean, d_target) \/ DotSuffix(d_target, d_clean)) => d_match = <<TRUE, 90>>
        /\ d_match[2] = 100 => d_clean = d_target

IsIpLiteral(t) == t # <<>> /\ \A k \in 1..Len(t) : t[k] \in Digits \cup {"."}

IsBracketed(t) == t # <<>> /\ t[1] = "[" /\ t[Len(t)] = "]"

\* C26 as stated: a non-string or empty input, a host without a dot or
\* shorter than 3 characters, and a bracketed or IP-literal host all
\* normalize to the empty string.
C26_UnusableGivesEmpty ==
    (/\ d_pc = "cleaned"
     /\ \/ ~d_url.is_str
        \/ Len(d_url.text) < 3
        \/ \A k \in 1..Len(d_url.text) : d_url.text[k] # "."
        \/ IsIpLiteral(d_url.text)
        \/ IsBracketed(d_url.text))
    => d_clean = <<>>

\* C27 as stated: the organic candidate of the scenario is reported as found
\* with page 1, position 4 and confidence >= 0.85, whatever title it has, as
\* long as the title contains the keyword.
C27_ScenarioFound ==
    (v_pc = "reported" /\ s_cand.kw_t /\ s_cand.ctx = "organic" /\ s_cand.pos = "main") =>
        /\ v_result.found
        /\ v_result.page = 1
        /\ v_result.position = 4
        /\ v_result.confidence * 100 >= 85 * ConfUnit

\* C28: a call of track_ranking_with_validation in which no candidate
\* validated as a match returns found = false with position 0, page 0 and
\* empty url and title; only a validated match leads to a found result.
C28_NotFoundResult ==
    /\ []((pc = "handoff" /\ ~result.found) =>
            /\ result.position = 0
            /\ result.page = 0
            /\ result.url = ""
            /\ result.title = "")
    /\ [][(pc # "attempt_found" /\ pc' = "attempt_found") => h_matches' = h_matches + 1]_vars
    /\ [][(pc # "handoff" /\ pc' = "handoff" /\ pc # "attempt_found") => ~result'.found]_vars

\* Every attempt scanned its pages without a match or an exception, and the
\* call returned the not-found result.
C28_Witness ==
    /\ pc = "handoff"
    /\ ~result.found
    /\ result.has_attempts
    /\ h_calls = max_retries
    /\ h_errors = 0
    /\ h_retries = max_retries - 1
    /\ ~should_stop

\* C29 as stated: every keyword is counted once: processed = matched +
\* unmatched and processed <= total in every state, and a session that ran to
\* its end has processed = total.
C29_CountedOnce ==
    /\ keywords_processed = keywords_found + keywords_not_found
    /\ keywords_processed <= total_keywords_p
    /\ h_completed <= 1
    /\ p_pc = "done" => keywords_processed = total_keywords_p

\* C30 as stated: at most one worker thread is inside
\* run_ultra_accurate_tracking at any time.
C30_OneWorkerThread ==
    Cardinality({w \in Workers : t_pc[w] # "none"}) <= 1

\* C31 as stated: once stop_tracking was called for a session, its worker
\* takes no further keyword from the loop, and the _reset_ui_state that the
\* worker scheduled leaves is_tracking and current_tracker of a session that
\* is running by then as they are.
C31_StoppedSessionStaysStopped ==
    [][/\ \A w \in t_hist.stopped :
             ~(t_pc[w] = "kw_loop" /\ t_pc'[w] = "track_call")
       /\ (t_resets' < t_resets /\ Head(t_hist.stale) /\ is_tracking)
             => (is_tracking' /\ current_tracker' = current_tracker)]_vars

\* C32 as stated: while track_ranking_premium computes positions for the
\* links of a page, and when it reports a match, its page number is one more
\* than the number of next-page navigations that succeeded in this run.
C32_PageCountsNavigations ==
    p_pc \in {"scan", "quit_found"} => p_page = 1 + p_navs

\* C34 as stated: after reset_session has started a session, every timing
\* sample in processing_times was recorded in that session.
C34_NoEarlierSamples ==
    p_pc # "idle" => \A k \in 1..Len(processing_times_p) : processing_times_p[k].current

\* C33, its first part as stated: an attempt that ends with should_stop set
\* (the stop request came during the attempt, since AttemptTop starts none
\* once it is set) records no retry: record_retry (499) is not called.
C33_CancellationNotCounted ==
    [][(should_stop /\ pc = "attempt_end") => h_retries' = h_retries]_vars

\* a host name: labels of letters, digits and hyphens, joined by dots
IsHostName(t) ==
    /\ \E k \in 1..Len(t) : t[k] = "."
    /\ \A label \in Labels(t) : label # <<>> /\ \A k \in 1..Len(label) : label[k] \in LabelChars

\* C35 as stated: for a link whose URL has a host that is a subdomain of the
\* target domain, or has the same last two labels, the match that
\* track_ranking_premium computes from the cleaned URL is True.
C35_SubdomainMatches ==
    (d_pc = "link_matched" /\ d_url.is_str) =>
        LET host == urlparse_netloc(d_url.text)[2]
        IN (/\ IsHostName(host)
            /\ IsHostName(d_target)
            /\ DotSuffix(d_target, host) \/ main_domain(host) = main_domain(d_target))
              => d_match[1]

\* the forms that C36 lists as rejected
Rejected(form) ==
    \/ ~form.keywords_text \/ form.keywords = 0
    \/ form.keywords > 50
    \/ ~form.domain
    \/ ~form.pages.is_int \/ form.pages.value < 1 \/ form.pages.value > 20
    \/ ~form.filename
    \/ form.location # "exists"
    \/ ~form.font_size.is_int \/ form.font_size.value < 8 \/ form.font_size.value > 72

\* what start_tracking does when it starts a session
StartEffect ==
    \/ ~is_tracking /\ is_tracking'
    \/ config_data' # config_data
    \/ <<engine_vars, stats>>' # <<engine_vars, stats>>
    \/ \E w \in Workers : t_pc[w] = "none" /\ t_pc'[w] # "none"

\* C36: the step of start_tracking that puts up the error box of
\* validate_inputs leaves is_tracking, config_data, the statistics and the worker threads as
\* they were; and whenever a step has one of the effects of start_tracking
\* (is_tracking set, config_data assigned, the statistics restarted, a worker
\* thread created), no session was running when start_tracking was entered
\* and its form is none that the claim lists as rejected.
C36_RejectedStartChangesNothing ==
    [][/\ (gui_pc = "ready" /\ gui_pc' = "error_box") =>
             UNCHANGED <<is_tracking, config_data, engine_vars, stats, t_pc>>
       /\ StartEffect =>
             /\ gui_pc = "ready" => ~is_tracking
             /\ ~Rejected(IF gui_pc = "ready" THEN h_form' ELSE h_form)]_vars

\* After an earlier session has set config_data and the statistics, a
\* rejected form has put up the error box while no session is running.
C36_Witness ==
    /\ gui_pc = "error_box"
    /\ config_data # NoConfig
    /\ total_keywords > 0
    /\ ~is_tracking

\* the ready state that _reset_ui_state (1487-1500) leaves: no session is
\* marked as running, no tracker is referred to, and the buttons, which are
\* set together with is_tracking (1377-1384, 1489-1497), offer Start
ReadyState ==
    /\ ~is_tracking
    /\ current_tracker = 0
    /\ gui_pc = "ready"

\* C37: whenever a session is running (is_tracking, set by start_tracking),
\* the application is in the ready state some time later, whether the worker
\* runs out of keywords, the session is stopped or the worker fails.
C37_SessionEndsReady ==
    is_tracking ~> ReadyState

\* A session has run to its end without being stopped: its worker has ended
\* and its _reset_ui_state has returned the application to the ready state.
C37_Witness ==
    /\ ReadyState
    /\ total_keywords > 0
    /\ \A w \in Workers : t_pc[w] = "none"
    /\ t_resets = 0

====
